---------------------------- MODULE Spec2Model ----------------------------
(***************************************************************************)
(* Bootnode billing core: tier catalog and cost calculation                *)
(* (core/billing/tiers.py), usage tracker (core/billing/tracker.py),       *)
(* usage sync worker (core/billing/sync.py) and Commerce webhook handler   *)
(* (core/billing/webhooks.py, api/billing/__init__.py).                    *)
(*                                                                         *)
(* Each subsystem has its own specification over one shared set of         *)
(* variables; a specification leaves the other subsystems' variables at    *)
(* their initial values.                                                   *)
(***************************************************************************)
EXTENDS Integers, Sequences, FiniteSets, TLC

VARIABLES
    \* calculate_monthly_cost: the last call's arguments and result
    costTier, costCU, costResult,
    \* usage tracker: KV store keys, columnar datastore, the last operations
    month, usage, buffer, dsConnected, dsRows,
    nTracks, sumCost, reached, lastFlush, quota,
    \* Subscription table (SQL)
    subs,
    \* Commerce webhooks: the secret, cached subscriptions, the last request
    webhook_secret, cache, last,
    \* the latest event delivered, as the lifecycle of a row sees it
    delivered,
    \* usage sync: KV keys, workers, clock, Commerce
    lock, unsync, now, wpc, wtodo, wn, wres, wsent, runs,
    posts, commerceSeen, commerceCharged, overlapped, lockExpired,
    \* how each worker was entered, the "synced" field of its latest result
    wmode, wsynced,
    \* the CU added to each unsync counter so far, and what that was when
    \* each worker's latest DECRBY was applied
    accrued, wacc,
    \* Lux fleets: the API's registry, the requests in flight
    _fleets, requests,
    \* one cluster as get_status and list_fleets see it, and what they said
    releases, pods, view,
    \* rolling restart: the pods of the namespace, the restart in progress
    kpods, restart,
    \* Helm operations in flight and the locks of their deployers
    ops, _locks,
    \* network launcher: the API's registry, the manifests in the cluster,
    \* the replicas of each slug's web deployment in the cluster
    _networks, applied, web_scale

costVars  == <<costTier, costCU, costResult>>
trackVars == <<month, usage, buffer, dsConnected, dsRows,
               nTracks, sumCost, reached, lastFlush, quota>>
dbVars    == <<subs>>
syncVars  == <<lock, unsync, now, wpc, wtodo, wn, wres, wsent, runs,
               posts, commerceSeen, commerceCharged, overlapped, lockExpired,
               wmode, wsynced, accrued, wacc>>
hookVars  == <<webhook_secret, cache, last, delivered>>
fleetVars == <<_fleets, requests, releases, pods, view>>
deployVars == <<kpods, restart, ops, _locks>>
netVars   == <<_networks, applied, web_scale>>
otherVars == <<deployVars, netVars>>
billingVars == <<costVars, trackVars, dbVars, syncVars, hookVars>>
vars      == <<costVars, trackVars, dbVars, syncVars, hookVars, fleetVars,
               deployVars, netVars>>

(***************************************************************************)
(* Static tier catalog (tiers.py)                                          *)
(***************************************************************************)
FREE          == "free"
PAY_AS_YOU_GO == "payg"
GROWTH        == "growth"
ENTERPRISE    == "enterprise"

PricingTier == {FREE, PAY_AS_YOU_GO, GROWTH, ENTERPRISE}

TIER_LIMITS ==
    [t \in PricingTier |->
        CASE t = FREE ->
               [monthly_cu |-> 30000000, rate_limit_per_second |-> 25,
                max_apps |-> 5, max_webhooks |-> 5,
                price_per_million_cu |-> 0]
          [] t = PAY_AS_YOU_GO ->
               [monthly_cu |-> 0, rate_limit_per_second |-> 300,
                max_apps |-> 30, max_webhooks |-> 100,
                price_per_million_cu |-> 40]
          [] t = GROWTH ->
               [monthly_cu |-> 100000000, rate_limit_per_second |-> 500,
                max_apps |-> 50, max_webhooks |-> 250,
                price_per_million_cu |-> 35]
          [] t = ENTERPRISE ->
               [monthly_cu |-> 0, rate_limit_per_second |-> 1000,
                max_apps |-> 0, max_webhooks |-> 500,
                price_per_million_cu |-> 0]]

get_tier_limits(tier) == TIER_LIMITS[tier]

Max(a, b) == IF a >= b THEN a ELSE b

\* One million CU, the unit of price_per_million_cu.
Million == 1000000

\* int(x * price / 1_000_000) for an integer x >= 0.  The code divides in
\* binary floating point (millions = billable_cu / 1_000_000) and truncates
\* the product; for the magnitudes of a billing period that equals the
\* exact floor(x * price / 10^6).  The quotient is split so that no
\* intermediate product leaves the 32-bit integers of the model checker:
\* floor(x*p/M) = (x div M)*p + floor((x mod M)*p / M).
CentsFor(x, price) ==
    (x \div Million) * price + ((x % Million) * price) \div Million

\* A slip that bills whole millions only: int(millions) * price.
calculate_monthly_cost_whole_millions(tier, compute_units_used) ==
    IF tier = FREE \/ tier = ENTERPRISE
    THEN 0
    ELSE LET limits == TIER_LIMITS[tier]
             billable_cu == Max(0, compute_units_used - limits.monthly_cu)
         IN  (billable_cu \div Million) * limits.price_per_million_cu

calculate_monthly_cost(tier, compute_units_used) ==
    LET limits == TIER_LIMITS[tier]
    IN  IF tier = FREE THEN 0
        ELSE IF tier = ENTERPRISE THEN 0
        ELSE LET included_cu == limits.monthly_cu
                 billable_cu == Max(0, compute_units_used - included_cu)
             IN  CentsFor(billable_cu, limits.price_per_million_cu)

(***************************************************************************)
(* Specification SpecCost: calculate_monthly_cost applied to bounded       *)
(* inputs.                                                                 *)
(***************************************************************************)
\* Usage inputs: 0 or the growth tier's included 100M, plus up to
\* MaxHalfMillions half millions, plus an offset inside the half million.
MaxHalfMillions == 5

CuInputs ==
    {base + k * 500000 + d :
        base \in {0, 100000000}, k \in 0..MaxHalfMillions, d \in {0, 1, 250000}}

\* Before any other call: the result of calculate_monthly_cost(FREE, 0).
InitCostIdle ==
    /\ costTier = FREE
    /\ costCU = 0
    /\ costResult = 0

CalculateMonthlyCost ==
    /\ \E t \in PricingTier, n \in CuInputs :
          /\ costTier' = t
          /\ costCU' = n
          /\ costResult' = calculate_monthly_cost(t, n)
    /\ UNCHANGED <<trackVars, dbVars, syncVars, hookVars, fleetVars, otherVars>>

(***************************************************************************)
(* Usage tracker (tracker.py)                                              *)
(***************************************************************************)
Projects == {"p1", "p2"}

\* Months of the model: 0..MaxMonth; the period key is cu:usage:{p}:{YYYY-MM}.
MaxMonth == 1
Months == 0..MaxMonth

\* Track calls per behaviour.
MaxTracks == 2

\* self._batch_size
BatchSize == 100

\* Compute-unit catalog (core/billing/compute_units.py): eth_getBalance
\* costs 5 CU, a method the catalog does not list costs the default.
DEFAULT_COMPUTE_UNITS == 10

Methods == {"eth_getBalance", "unlisted_method"}

get_compute_units(method) ==
    IF method = "eth_getBalance" THEN 5 ELSE DEFAULT_COMPUTE_UNITS

\* The compute_units argument of track when the caller supplies one.
CuOverrides == {0, 7}

\* A slip: "if not compute_units" also replaces a supplied cost of 0.
ResolveCostFalsy(method, given, compute_units) ==
    IF ~given \/ compute_units = 0
    THEN get_compute_units(method) ELSE compute_units

\* track, lines 73-74: the cost is the supplied one unless it is None.
ResolveCost(method, given, compute_units) ==
    IF ~given THEN get_compute_units(method) ELSE compute_units

\* A slip: the counter key without the billing period.
PeriodOfNoPeriod(now_month) == 0

\* _get_period_key: the key's period is the current UTC month.
PeriodOf(now_month) == now_month

\* A slip: flushing without looking at is_connected.
_flush_buffer_unguarded(buf, rows, connected, insert_ok) ==
    IF buf = 0 THEN [buffer |-> buf, rows |-> rows]
    ELSE [buffer |-> 0, rows |-> IF insert_ok THEN rows + buf ELSE rows]

\* _flush_buffer on a project's buffer list and its api_usage rows.  The
\* list cu:buffer:{p} is only appended to (RPUSH) and deleted as a whole, and
\* the table only inserted into, so each is represented by its number of
\* records: `buf` is LLEN of the list, `rows` the rows inserted so far.
\* Nothing happens when the datastore is not connected; otherwise the list
\* is read and deleted in one pipeline and the records inserted;
\* insert_ok = FALSE is an insert that raises (the exception is logged).
_flush_buffer(buf, rows, connected, insert_ok) ==
    IF ~connected THEN [buffer |-> buf, rows |-> rows]
    ELSE IF buf = 0 THEN [buffer |-> buf, rows |-> rows]
    ELSE [buffer |-> 0, rows |-> IF insert_ok THEN rows + buf ELSE rows]

\* get_current_usage: the monthly counter, 0 when the key is missing or
\* the KV read raises (kv_ok = FALSE).
get_current_usage(project, kv_ok) ==
    IF kv_ok THEN usage[project][PeriodOf(month)] ELSE 0

\* A slip: "<=" for "<".
check_quota_inclusive(project, tier, kv_ok) ==
    LET limits == get_tier_limits(tier)
    IN  IF limits.monthly_cu = 0 THEN TRUE
        ELSE get_current_usage(project, kv_ok) <= limits.monthly_cu

check_quota(project, tier, kv_ok) ==
    LET limits == get_tier_limits(tier)
    IN  IF limits.monthly_cu = 0 THEN TRUE
        ELSE get_current_usage(project, kv_ok) < limits.monthly_cu

\* lastFlush[p]: whether the last step attempted a flush of p's buffer,
\* with the datastore's state and p's buffer list at that moment.
NoFlush == [tried |-> FALSE, connected |-> FALSE, buf |-> 0]

\* quota: the check_quota call made in the last step, if any, and what it
\* returned.
NoQuota == [called |-> FALSE, project |-> "p1", tier |-> FREE, kv_ok |-> TRUE,
            usage |-> 0, reached |-> FALSE, result |-> TRUE]

\* A project with records waiting in its buffer, two short of a batch.
AlmostFull == BatchSize - 2

InitTrackIdle ==
    /\ month = 0
    /\ usage = [p \in Projects |-> [m \in Months |-> 0]]
    /\ buffer = [p \in Projects |-> 0]
    /\ dsConnected = TRUE
    /\ dsRows = [p \in Projects |-> 0]
    /\ nTracks = 0
    /\ sumCost = [p \in Projects |-> [m \in Months |-> 0]]
    /\ reached = [p \in Projects |-> FALSE]
    /\ lastFlush = [p \in Projects |-> NoFlush]
    /\ quota = NoQuota

\* Project p1 starts the month either fresh or as the free-tier project of
\* the quota scenario (29,999,990 CU used), with an empty buffer or with
\* records waiting; sumCost is the sum of the costs tracked so far.
InitTrack ==
    /\ month = 0
    /\ \E u0 \in {0, 29999990} :
          /\ usage = [p \in Projects |->
                        [m \in Months |-> IF p = "p1" /\ m = 0 THEN u0 ELSE 0]]
          /\ sumCost = usage
    /\ \E b0 \in {0, AlmostFull} :
          buffer = [p \in Projects |-> IF p = "p1" THEN b0 ELSE 0]
    /\ dsConnected \in BOOLEAN
    /\ dsRows = [p \in Projects |-> 0]
    /\ nTracks = 0
    /\ reached = [p \in Projects |-> FALSE]
    /\ lastFlush = [p \in Projects |-> NoFlush]
    /\ quota = NoQuota

\* track(project_id, method, compute_units): incr_ok and buffer_ok are the
\* two KV round trips (each in its own try block), insert_ok the datastore
\* insert of an automatic flush.
track(project, method, given, compute_units, incr_ok, buffer_ok, insert_ok) ==
    LET cost     == ResolveCost(method, given, compute_units)
        period   == PeriodOf(month)
        usage1   == IF incr_ok
                    THEN [usage EXCEPT ![project][period] = @ + cost]
                    ELSE usage
        buf1     == IF buffer_ok THEN buffer[project] + 1
                    ELSE buffer[project]
        flushing == buffer_ok /\ buf1 >= BatchSize
        flushed  == _flush_buffer(buf1, dsRows[project], dsConnected, insert_ok)
    IN  /\ nTracks < MaxTracks
        /\ nTracks' = nTracks + 1
        /\ usage' = usage1
        /\ buffer' = [buffer EXCEPT ![project] =
                          IF flushing THEN flushed.buffer ELSE buf1]
        /\ dsRows' = [dsRows EXCEPT ![project] =
                          IF flushing THEN flushed.rows ELSE @]
        /\ lastFlush' = [lastFlush EXCEPT ![project] =
                          IF flushing
                          THEN [tried |-> TRUE, connected |-> dsConnected,
                                buf |-> buf1]
                          ELSE NoFlush]
        \* history: the sum of the costs of the calls whose increment
        \* reached the KV store (supplied cost, else catalog cost)
        /\ sumCost' = IF incr_ok
                      THEN [sumCost EXCEPT ![project][month] =
                              @ + (IF given THEN compute_units
                                   ELSE get_compute_units(method))]
                      ELSE sumCost
        /\ reached' = [reached EXCEPT ![project] =
                          @ \/ usage1[project][period] >= TIER_LIMITS[FREE].monthly_cu]
        /\ quota' = NoQuota
        /\ UNCHANGED <<month, dsConnected>>

Track ==
    /\ \E project \in Projects, method \in Methods, given \in BOOLEAN,
          compute_units \in CuOverrides,
          incr_ok \in BOOLEAN, buffer_ok \in BOOLEAN, insert_ok \in BOOLEAN :
          track(project, method, given, compute_units, incr_ok, buffer_ok, insert_ok)
    /\ UNCHANGED <<costVars, dbVars, syncVars, hookVars, fleetVars, otherVars>>

\* flush_all_buffers (shutdown): every existing cu:buffer:* key is flushed.
\* A list key exists exactly while the list is non-empty.
FlushAllBuffers ==
    /\ \E insert_ok \in [Projects -> BOOLEAN] :
          LET flushed(p) == _flush_buffer(buffer[p], dsRows[p], dsConnected,
                                          insert_ok[p])
          IN  /\ buffer' = [p \in Projects |->
                               IF buffer[p] # 0 THEN flushed(p).buffer
                               ELSE buffer[p]]
              /\ dsRows' = [p \in Projects |->
                               IF buffer[p] # 0 THEN flushed(p).rows
                               ELSE dsRows[p]]
    /\ lastFlush' = [p \in Projects |->
                       IF buffer[p] # 0
                       THEN [tried |-> TRUE, connected |-> dsConnected,
                             buf |-> buffer[p]]
                       ELSE NoFlush]
    /\ UNCHANGED <<month, usage, dsConnected, nTracks, sumCost, reached, quota>>
    /\ UNCHANGED <<costVars, dbVars, syncVars, hookVars, fleetVars, otherVars>>

\* check_quota(project_id, tier) called by the billing gate.
CheckQuota ==
    /\ \E project \in Projects, tier \in PricingTier, kv_ok \in BOOLEAN :
          quota' = [called |-> TRUE, project |-> project, tier |-> tier,
                    kv_ok |-> kv_ok, usage |-> usage[project][month],
                    reached |-> reached[project],
                    result |-> check_quota(project, tier, kv_ok)]
    /\ UNCHANGED <<month, usage, buffer, dsConnected, dsRows, nTracks,
                   sumCost, reached, lastFlush>>
    /\ UNCHANGED <<costVars, dbVars, syncVars, hookVars, fleetVars, otherVars>>

\* The columnar datastore's connection comes and goes.
DatastoreChanges ==
    /\ dsConnected' = ~dsConnected
    /\ lastFlush' = [p \in Projects |-> NoFlush]
    /\ UNCHANGED <<month, usage, buffer, dsRows, nTracks, sumCost, reached,
                   quota>>
    /\ UNCHANGED <<costVars, dbVars, syncVars, hookVars, fleetVars, otherVars>>

\* The UTC month ends.
NextMonth ==
    /\ month < MaxMonth
    /\ month' = month + 1
    /\ reached' = [p \in Projects |-> FALSE]
    /\ lastFlush' = [p \in Projects |-> NoFlush]
    /\ quota' = NoQuota
    /\ UNCHANGED <<usage, buffer, dsConnected, dsRows, nTracks, sumCost>>
    /\ UNCHANGED <<costVars, dbVars, syncVars, hookVars, fleetVars, otherVars>>

(***************************************************************************)
(* Subscription rows (db.models.Subscription as the billing core writes    *)
(* and reads it)                                                           *)
(***************************************************************************)
\* A column that is NULL, a field an event does not carry.
Null == "null"

\* A row with `tier` and the tier catalog's limits.
RowOf(tier, subscription_id, customer_id, scheduled) ==
    [exists |-> TRUE, tier |-> tier,
     monthly_cu_limit |-> get_tier_limits(tier).monthly_cu,
     rate_limit_per_second |-> get_tier_limits(tier).rate_limit_per_second,
     max_apps |-> get_tier_limits(tier).max_apps,
     max_webhooks |-> get_tier_limits(tier).max_webhooks,
     hanzo_subscription_id |-> subscription_id,
     hanzo_customer_id |-> customer_id,
     scheduled_tier |-> scheduled]

\* No row for the project.
NoRow == [exists |-> FALSE, tier |-> FREE,
          monthly_cu_limit |-> 0, rate_limit_per_second |-> 0,
          max_apps |-> 0, max_webhooks |-> 0,
          hanzo_subscription_id |-> Null, hanzo_customer_id |-> Null,
          scheduled_tier |-> Null]

InitDbIdle == subs = [p \in Projects |-> NoRow]

\* What the sync worker never writes.
nonSyncVars == <<costVars, trackVars, dbVars, hookVars, fleetVars, otherVars>>

(***************************************************************************)
(* Commerce webhooks (api/billing/__init__.py, webhooks.py)                *)
(***************************************************************************)
PLAN_TO_TIER ==
    [slug \in {"bootnode-free", "bootnode-payg", "bootnode-growth",
               "bootnode-enterprise"} |->
        CASE slug = "bootnode-free" -> FREE
          [] slug = "bootnode-payg" -> PAY_AS_YOU_GO
          [] slug = "bootnode-growth" -> GROWTH
          [] slug = "bootnode-enterprise" -> ENTERPRISE]

\* PLAN_TO_TIER.get(plan_slug, PricingTier.FREE)
PlanTier(plan_slug) ==
    IF plan_slug \in DOMAIN PLAN_TO_TIER THEN PLAN_TO_TIER[plan_slug] ELSE FREE

\* data.get("plan_slug", "bootnode-free")
PlanSlugOrDefault(plan_slug) ==
    IF plan_slug = Null THEN "bootnode-free" ELSE plan_slug

\* The event types of the dispatch table.
UpsertTypes == {"subscription.created", "subscription.updated",
                "subscription.cancelled", "subscription.reactivated",
                "order.completed"}
LogOnlyTypes == {"order.cancelled", "invoice.paid", "invoice.payment_failed",
                 "payment.paid", "payment.failed", "payment.refunded",
                 "customer.created", "customer.updated"}
HandledTypes == UpsertTypes \cup LogOnlyTypes

\* A "type" that is a JSON array or object: not hashable.
UnhashableType == "[unhashable]"

\* What events carry.
EventIds == {Null, "sub_x"}
EventCustomers == {Null, "cust_y"}
EventPlans == {Null, "bootnode-payg", "bootnode-growth",
               "bootnode-enterprise", "some-other-plan"}
EventProjectIds == {Null, "not-a-uuid"} \cup Projects

\* What goes wrong around a handler: nothing; the database (execute or
\* commit raises); the KV store (delete raises); a current_period_end that
\* is not an ISO date.
Faults == {"none", "db", "cache", "period_end"}

\* The signature header: the hex digest of a body under a key, or a value
\* with a byte outside ASCII.
Hmac(key, body) == [ascii |-> TRUE, key |-> key, body |-> body]
NonAscii(sig) == [sig EXCEPT !.ascii = FALSE]
Signatures(secret) ==
    {Hmac(secret, "body"), Hmac("guess", "body"), Hmac(secret, "other body"),
     Hmac("", ""), NonAscii(Hmac(secret, "body"))}

\* hmac.compare_digest on two str: TypeError unless both are ASCII.
compare_digest(a, b) ==
    IF ~a.ascii \/ ~b.ascii THEN "TypeError"
    ELSE IF a = b THEN "True" ELSE "False"

\* verify_signature: "True", "False", or the exception it raises.
verify_signature(secret, payload, signature) ==
    IF secret = "" THEN "True"
    ELSE compare_digest(Hmac(secret, payload), signature)

\* The rows a lookup by Commerce subscription id finds (a null id in the
\* event compares as IS NULL).
RowsBySubscriptionId(S, subscription_id) ==
    {p \in Projects : S[p].exists /\ S[p].hanzo_subscription_id = subscription_id}

\* The row with tier and limits set from the catalog.
WithTier(row, tier) ==
    [row EXCEPT !.tier = tier,
                !.monthly_cu_limit = get_tier_limits(tier).monthly_cu,
                !.rate_limit_per_second = get_tier_limits(tier).rate_limit_per_second,
                !.max_apps = get_tier_limits(tier).max_apps,
                !.max_webhooks = get_tier_limits(tier).max_webhooks]

\* What a handler leaves behind: the rows, the cache, whether it raised,
\* and the "error" of its result ("" when there is none).
Outcome(S, C, raised, error) ==
    [subs |-> S, cache |-> C, raised |-> raised, error |-> error]

\* commit, then _invalidate_cache(project): the rows S1 are committed; the
\* delete of billing:subscription:{project} raises when the KV store is down.
CommitAndInvalidate(S1, C, project, fault) ==
    IF fault = "cache" THEN Outcome(S1, C, TRUE, "")
    ELSE Outcome(S1, C \ {project}, FALSE, "")

\* A slip: a project_id that is not a UUID is reported as missing.
handle_subscription_created_unparsed(S, C, data, fault) ==
    IF data.project_id \notin Projects
    THEN Outcome(S, C, FALSE, "missing_project_id")
    ELSE CommitAndInvalidate(
             [S EXCEPT ![data.project_id] =
                 RowOf(PlanTier(PlanSlugOrDefault(data.plan_slug)), data.id,
                       data.customer_id, Null)],
             C, data.project_id, fault)

\* handle_subscription_created
handle_subscription_created(S, C, data, fault) ==
    IF data.project_id = Null THEN Outcome(S, C, FALSE, "missing_project_id")
    ELSE IF data.project_id \notin Projects
    THEN Outcome(S, C, FALSE, "invalid_project_id")
    ELSE LET project == data.project_id
             tier    == PlanTier(PlanSlugOrDefault(data.plan_slug))
         IN  IF fault = "db" THEN Outcome(S, C, TRUE, "")
             ELSE IF S[project].exists
             THEN CommitAndInvalidate(
                      [S EXCEPT ![project] =
                          [WithTier(@, tier) EXCEPT
                              !.hanzo_subscription_id = data.id,
                              !.hanzo_customer_id = data.customer_id]],
                      C, project, fault)
             ELSE IF fault = "period_end" THEN Outcome(S, C, TRUE, "")
             ELSE CommitAndInvalidate(
                      [S EXCEPT ![project] =
                          RowOf(tier, data.id, data.customer_id, Null)],
                      C, project, fault)

\* The part common to the handlers that look the row up by the Commerce
\* subscription id: scalar_one_or_none raises on more than one row; no row
\* is "subscription_not_found"; otherwise the row becomes changed[project],
\* is committed, and its cache key deleted.
ByIdThen(S, C, data, fault, changed, reads_period_end) ==
    LET found == RowsBySubscriptionId(S, data.id)
    IN  IF fault = "db" THEN Outcome(S, C, TRUE, "")
        ELSE IF Cardinality(found) > 1 THEN Outcome(S, C, TRUE, "")
        ELSE IF found = {} THEN Outcome(S, C, FALSE, "subscription_not_found")
        ELSE IF reads_period_end /\ fault = "period_end"
        THEN Outcome(S, C, TRUE, "")
        ELSE LET project == CHOOSE q \in found : TRUE
             IN  CommitAndInvalidate([S EXCEPT ![project] = changed[project]],
                                     C, project, fault)

\* handle_subscription_updated
handle_subscription_updated(S, C, data, fault) ==
    LET tier == PlanTier(PlanSlugOrDefault(data.plan_slug))
        change(row) == WithTier(row, tier)
    IN  ByIdThen(S, C, data, fault, [p \in Projects |-> change(S[p])], TRUE)

\* A slip: the cache key is deleted before the commit, which then fails
\* or not.
handle_subscription_cancelled_early_delete(S, C, data, fault) ==
    LET found == RowsBySubscriptionId(S, data.id)
    IN  IF Cardinality(found) # 1 THEN Outcome(S, C, FALSE, "subscription_not_found")
        ELSE LET project == CHOOSE q \in found : TRUE
                 row == S[project]
             IN  IF fault = "db" THEN Outcome(S, C \ {project}, TRUE, "")
                 ELSE Outcome([S EXCEPT ![project] =
                                  IF data.immediately
                                  THEN [WithTier(row, FREE) EXCEPT
                                           !.hanzo_subscription_id = Null]
                                  ELSE [row EXCEPT !.scheduled_tier = FREE]],
                              C \ {project}, FALSE, "")

\* A slip: the immediate downgrade forgets max_webhooks.
handle_subscription_cancelled_partial(S, C, data, fault) ==
    LET change(row) ==
            IF data.immediately
            THEN [WithTier(row, FREE) EXCEPT
                     !.max_webhooks = row.max_webhooks,
                     !.hanzo_subscription_id = Null]
            ELSE [row EXCEPT !.scheduled_tier = FREE]
    IN  ByIdThen(S, C, data, fault, [p \in Projects |-> change(S[p])], FALSE)

\* handle_subscription_cancelled
handle_subscription_cancelled(S, C, data, fault) ==
    LET change(row) ==
            IF data.immediately
            THEN [WithTier(row, FREE) EXCEPT !.hanzo_subscription_id = Null]
            ELSE [row EXCEPT !.scheduled_tier = FREE]
    IN  ByIdThen(S, C, data, fault, [p \in Projects |-> change(S[p])], FALSE)

\* handle_subscription_reactivated
handle_subscription_reactivated(S, C, data, fault) ==
    LET tier == PlanTier(PlanSlugOrDefault(data.plan_slug))
        change(row) == [WithTier(row, tier) EXCEPT !.scheduled_tier = Null]
    IN  ByIdThen(S, C, data, fault, [p \in Projects |-> change(S[p])], FALSE)

\* A slip: for a project that has a row, the order's tier is kept for
\* later in scheduled_tier.
handle_order_completed_scheduling(S, C, data, fault) ==
    IF data.plan_slug = Null \/ data.project_id \notin Projects
    THEN Outcome(S, C, FALSE, "")
    ELSE IF S[data.project_id].exists
    THEN CommitAndInvalidate(
             [S EXCEPT ![data.project_id].scheduled_tier = PlanTier(data.plan_slug)],
             C, data.project_id, fault)
    ELSE CommitAndInvalidate(
             [S EXCEPT ![data.project_id] =
                 RowOf(PlanTier(data.plan_slug), data.id, data.customer_id, Null)],
             C, data.project_id, fault)

\* handle_order_completed: plan_slug and project_id come from the metadata,
\* the Commerce subscription id from data.subscription_id (here data.id).
handle_order_completed(S, C, data, fault) ==
    IF data.plan_slug = Null \/ data.project_id = Null
    THEN Outcome(S, C, FALSE, "")
    ELSE IF data.project_id \notin Projects
    THEN Outcome(S, C, FALSE, "invalid_project_id")
    ELSE LET project == data.project_id
             tier    == PlanTier(data.plan_slug)
         IN  IF fault = "db" THEN Outcome(S, C, TRUE, "")
             ELSE IF S[project].exists
             THEN CommitAndInvalidate(
                      [S EXCEPT ![project] =
                          [WithTier(@, tier) EXCEPT
                              !.hanzo_subscription_id =
                                  IF data.id # Null THEN data.id ELSE @,
                              !.hanzo_customer_id =
                                  IF data.customer_id # Null
                                  THEN data.customer_id ELSE @]],
                      C, project, fault)
             ELSE IF fault = "period_end" THEN Outcome(S, C, TRUE, "")
             ELSE CommitAndInvalidate(
                      [S EXCEPT ![project] =
                          RowOf(tier, data.id, data.customer_id, Null)],
                      C, project, fault)

\* The handlers that only log.
handle_log_only(S, C, data, fault) == Outcome(S, C, FALSE, "")

\* What handle_event returns, or that it raised.
Result(S, C, raised, handled, reason, error) ==
    [subs |-> S, cache |-> C, raised |-> raised, handled |-> handled,
     reason |-> reason, error |-> error]

\* handle_event: handlers.get(event_type) raises TypeError on a type that
\* is not hashable; an unknown type is reported; an exception of the
\* handler is caught and reported.
handle_event(S, C, event, fault) ==
    IF event.type = UnhashableType THEN Result(S, C, TRUE, FALSE, "", "")
    ELSE IF event.type \notin HandledTypes
    THEN Result(S, C, FALSE, FALSE, "unknown_type", "")
    ELSE LET data == event.data
             r == CASE event.type = "subscription.created" ->
                         handle_subscription_created(S, C, data, fault)
                    [] event.type = "subscription.updated" ->
                         handle_subscription_updated(S, C, data, fault)
                    [] event.type = "subscription.cancelled" ->
                         handle_subscription_cancelled(S, C, data, fault)
                    [] event.type = "subscription.reactivated" ->
                         handle_subscription_reactivated(S, C, data, fault)
                    [] event.type = "order.completed" ->
                         handle_order_completed(S, C, data, fault)
                    [] OTHER -> handle_log_only(S, C, data, fault)
         IN  IF r.raised
             THEN Result(r.subs, r.cache, FALSE, FALSE, "", "exception")
             ELSE Result(r.subs, r.cache, FALSE, TRUE, "", r.error)

\* The events Commerce (or whoever posts) sends, by type, with the fields
\* their handler reads.
Data(id, customer_id, plan_slug, project_id, immediately) ==
    [id |-> id, customer_id |-> customer_id, plan_slug |-> plan_slug,
     project_id |-> project_id, immediately |-> immediately]

NoData == Data(Null, Null, Null, Null, FALSE)

Events ==
    {[type |-> t, data |-> Data(i, c, pl, pr, FALSE)] :
        t \in {"subscription.created", "order.completed"},
        i \in EventIds, c \in EventCustomers, pl \in EventPlans,
        pr \in EventProjectIds}
    \cup {[type |-> t, data |-> Data(i, Null, pl, Null, FALSE)] :
        t \in {"subscription.updated", "subscription.reactivated"},
        i \in EventIds, pl \in EventPlans}
    \cup {[type |-> "subscription.cancelled",
           data |-> Data(i, Null, Null, Null, im)] :
        i \in EventIds, im \in BOOLEAN}
    \cup {[type |-> t, data |-> NoData] :
        t \in LogOnlyTypes \cup {"widget.created", UnhashableType}}

\* How an event names its project: not at all, by something that is not a
\* UUID, or by a project's UUID.
ProjectIdKind(data) ==
    IF data.project_id = Null THEN "absent"
    ELSE IF data.project_id \in Projects THEN "uuid" ELSE "not a uuid"

\* What can go wrong in the handler of an event of the type.
FaultsOf(type) ==
    IF type \in {"subscription.created", "subscription.updated", "order.completed"}
    THEN Faults
    ELSE IF type \in UpsertTypes THEN Faults \ {"period_end"}
    ELSE {"none"}

\* No request in progress.  A request is remembered, until its response
\* has been sent, by: whether its signature differs from
\* HMAC-SHA256(secret, raw body); its body ("event" when it is a JSON
\* object); the event's type and how it names its project; the number of
\* rows with the event's subscription id when it arrived; what went wrong
\* around its handler; the HTTP status; whether handle_event was called,
\* whether it raised, and its result; whether a row or a cache key changed.
NoRequest ==
    [differs |-> FALSE, body |-> "none", type |-> "", project_id |-> "absent",
     found |-> 0, fault |-> "none", status |-> 0, reached |-> FALSE, raised |-> FALSE,
     handled |-> FALSE, reason |-> "", error |-> "", changed |-> FALSE]

\* No event delivered (or the cache refilled since).  A delivery is
\* remembered by: the event and what went wrong around its handler; the
\* rows and the cache before it; the row its handler found (Null when
\* none); its result; whether it repeats the delivery before it, which
\* went through; and the row found by the cancellation of the same
\* subscription id delivered just before it (Null when there is none).
NoDelivery ==
    [type |-> "", data |-> NoData, fault |-> "none",
     before |-> [p \in Projects |-> NoRow], cache_before |-> {},
     row |-> Null, handled |-> FALSE, error |-> "",
     repeated |-> FALSE, cancelled_row |-> Null]

InitHookIdle ==
    /\ webhook_secret = ""
    /\ cache = {}
    /\ last = NoRequest
    /\ delivered = NoDelivery

\* settings.commerce_webhook_secret is set, or empty (development).
InitHook ==
    /\ webhook_secret \in {"", "whsec"}
    /\ cache = {}
    /\ last = NoRequest
    /\ delivered = NoDelivery

\* commerce_webhook, a request that carries no event: any signature, and a
\* body that is not JSON, or is JSON but not an object (event.get raises).
\* 401 on a signature that does not verify, 400 on a body that is not
\* JSON, 500 on an exception that nothing catches.
CommerceWebhookNoEvent ==
    /\ last = NoRequest
    /\ \E signature \in Signatures(webhook_secret),
          body \in {"not json", "json, not an object"} :
          LET verdict == verify_signature(webhook_secret, "body", signature)
          IN  last' = [NoRequest EXCEPT
                          !.differs = (signature # Hmac(webhook_secret, "body")),
                          !.body = body,
                          !.status = CASE verdict = "False" -> 401
                                       [] verdict = "TypeError" -> 500
                                       [] body = "not json" -> 400
                                       [] OTHER -> 500,
                          !.reached = (verdict = "True" /\ body # "not json"),
                          !.raised = (verdict = "True" /\ body # "not json")]
    /\ UNCHANGED <<subs, webhook_secret, cache, delivered>>
    /\ UNCHANGED <<costVars, trackVars, syncVars, fleetVars, otherVars>>

\* commerce_webhook, a request signed by the sender whose body is an event:
\* verify_signature, json.loads, handle_event with the handler it
\* dispatches to, and the response.
CommerceWebhookEvent ==
    /\ last = NoRequest
    /\ verify_signature(webhook_secret, "body", Hmac(webhook_secret, "body")) = "True"
    /\ \E event \in Events : \E fault \in FaultsOf(event.type) :
       \E r \in {handle_event(subs, cache, event, fault)} :
          /\ subs' = r.subs
          /\ cache' = r.cache
          /\ last' = [differs |-> FALSE, body |-> "event",
                      type |-> event.type,
                      project_id |-> ProjectIdKind(event.data),
                      found |-> Cardinality(
                                   RowsBySubscriptionId(subs, event.data.id)),
                      fault |-> fault,
                      status |-> IF r.raised THEN 500 ELSE 200,
                      reached |-> TRUE, raised |-> r.raised,
                      handled |-> r.handled, reason |-> r.reason,
                      error |-> r.error,
                      changed |-> (r.subs # subs \/ r.cache # cache)]
    /\ UNCHANGED <<webhook_secret, delivered>>
    /\ UNCHANGED <<costVars, trackVars, syncVars, fleetVars, otherVars>>

\* The billing service caches a subscription it has read under
\* billing:subscription:{project}.
CacheSubscription ==
    /\ last = NoRequest
    /\ \E project \in Projects :
          /\ subs[project].exists
          /\ project \notin cache
          /\ cache' = cache \cup {project}
    /\ delivered' = NoDelivery
    /\ UNCHANGED <<subs, webhook_secret, last>>
    /\ UNCHANGED <<costVars, trackVars, syncVars, fleetVars, otherVars>>

\* The response is sent; the endpoint takes the next request.
Respond ==
    /\ last # NoRequest
    /\ last' = NoRequest
    /\ UNCHANGED <<subs, webhook_secret, cache, delivered>>
    /\ UNCHANGED <<costVars, trackVars, syncVars, fleetVars, otherVars>>

\* The events of one row's lifecycle: the five that write rows, naming
\* the project p1 where their handler reads a project.
LifecycleEvents ==
    {e \in Events : /\ e.type \in UpsertTypes
                    /\ e.type \in {"subscription.created", "order.completed"}
                          => e.data.project_id = "p1"}

\* The failures followed through a lifecycle: those of a cancellation.
LifecycleFaults(type) ==
    IF type = "subscription.cancelled" THEN {"none", "db", "cache"} ELSE {"none"}

\* The row the handler of the event works on: the one named by project_id
\* for the upserts by project, the one found by subscription id otherwise
\* (Null when the lookup fails, finds none or finds several).
RowOfEvent(S, event, fault) ==
    IF event.type \in {"subscription.created", "order.completed"}
    THEN event.data.project_id
    ELSE IF fault # "db" /\ Cardinality(RowsBySubscriptionId(S, event.data.id)) = 1
    THEN CHOOSE p \in RowsBySubscriptionId(S, event.data.id) : TRUE
    ELSE Null

\* commerce_webhook for a signed event of a row's lifecycle, remembered
\* together with the delivery before it.
DeliverEvent ==
    /\ \E event \in LifecycleEvents : \E fault \in LifecycleFaults(event.type) :
       \E r \in {handle_event(subs, cache, event, fault)} :
          /\ subs' = r.subs
          /\ cache' = r.cache
          /\ delivered' =
                [type |-> event.type, data |-> event.data, fault |-> fault,
                 before |-> subs, cache_before |-> cache,
                 row |-> RowOfEvent(subs, event, fault),
                 handled |-> r.handled, error |-> r.error,
                 repeated |-> /\ delivered.type = event.type
                              /\ delivered.data = event.data
                              /\ delivered.fault = "none" /\ fault = "none"
                              /\ delivered.handled /\ delivered.error = "",
                 cancelled_row |->
                     IF /\ delivered.type = "subscription.cancelled"
                        /\ delivered.data.id = event.data.id
                        /\ delivered.fault = "none"
                        /\ delivered.handled /\ delivered.error = ""
                     THEN delivered.row ELSE Null]
    /\ UNCHANGED <<webhook_secret, last>>
    /\ UNCHANGED <<costVars, trackVars, syncVars, fleetVars, otherVars>>

NextLifecycle == DeliverEvent \/ CacheSubscription

NextWebhook ==
    CommerceWebhookNoEvent \/ CommerceWebhookEvent \/ Respond \/ CacheSubscription

(***************************************************************************)
(* Usage sync worker (sync.py)                                             *)
(***************************************************************************)
Workers == {"w1", "w2"}

\* Invocations of sync_all_projects per behaviour.
MaxSyncRuns == 2

\* The clock: ticks of half an hour, 0..MaxTime.
MaxTime == 2
HourOf(t) == t \div 2

\* A slip: a key that changes within the hour.
IdempotencyKeyPerTick(project, sync_time) == <<project, sync_time>>

\* f"{project_id}:{sync_time.strftime('%Y-%m-%d-%H')}"
IdempotencyKey(project, sync_time) == <<project, HourOf(sync_time)>>

\* _get_payg_subscriptions: the projects with tier payg and both Commerce
\* ids set, in the order the query returns them.
_get_payg_subscriptions ==
    SelectSeq(<<"p1", "p2">>,
              LAMBDA p : /\ subs[p].exists
                         /\ subs[p].tier = PAY_AS_YOU_GO
                         /\ subs[p].hanzo_subscription_id # Null
                         /\ subs[p].hanzo_customer_id # Null)

\* Commerce (external): a usage POST increments the subscription's metered
\* quantity unless its idempotency key has been seen before.
CommerceReceives(seen, charged, project, quantity, key) ==
    IF key \in seen
    THEN [seen |-> seen, charged |-> charged]
    ELSE [seen |-> seen \cup {key},
          charged |-> [charged EXCEPT ![project] = @ + quantity]]

InSection == {"list", "read", "post", "decr", "clamp_read", "clamp_write",
              "release"}

InitSyncIdle ==
    /\ lock = Null
    /\ unsync = [p \in Projects |-> 0]
    /\ now = 0
    /\ wpc = [w \in Workers |-> "idle"]
    /\ wtodo = [w \in Workers |-> <<>>]
    /\ wn = [w \in Workers |-> 0]
    /\ wres = [w \in Workers |-> "none"]
    /\ wsent = [w \in Workers |-> 0]
    /\ runs = 0
    /\ posts = <<>>
    /\ commerceSeen = {}
    /\ commerceCharged = [p \in Projects |-> 0]
    /\ overlapped = FALSE
    /\ lockExpired = FALSE
    /\ wmode = [w \in Workers |-> "none"]
    /\ wsynced = [w \in Workers |-> FALSE]
    /\ accrued = unsync
    /\ wacc = [w \in Workers |-> 0]

\* p1 is a PAYG project with 7,500,000 unsynced CU; p2 is a PAYG project
\* too, or on the free tier, with or without unsynced CU.
InitSync ==
    /\ \E t2 \in {PAY_AS_YOU_GO, FREE} :
          subs = [p \in Projects |->
                    IF p = "p1" THEN RowOf(PAY_AS_YOU_GO, "sub_x", "cust_y", Null)
                    ELSE IF t2 = FREE THEN RowOf(FREE, Null, "cust_z", Null)
                    ELSE RowOf(PAY_AS_YOU_GO, "sub_z", "cust_z", Null)]
    /\ \E u2 \in {0, 2500000} :
          unsync = [p \in Projects |-> IF p = "p1" THEN 7500000 ELSE u2]
    /\ lock = Null
    /\ now = 0
    /\ wpc = [w \in Workers |-> "idle"]
    /\ wtodo = [w \in Workers |-> <<>>]
    /\ wn = [w \in Workers |-> 0]
    /\ wres = [w \in Workers |-> "none"]
    /\ wsent = [w \in Workers |-> 0]
    /\ runs = 0
    /\ posts = <<>>
    /\ commerceSeen = {}
    /\ commerceCharged = [p \in Projects |-> 0]
    /\ overlapped = FALSE
    /\ lockExpired = FALSE
    /\ wmode = [w \in Workers |-> "none"]
    /\ wsynced = [w \in Workers |-> FALSE]
    /\ accrued = unsync
    /\ wacc = [w \in Workers |-> 0]

\* After the project at the head of the list: the next one, or the end of
\* the loop (billing:sync:last is written, then the lock released).  The
\* on-demand sync_project returns the project's result at once.
NextProject(w) ==
    /\ wtodo' = [wtodo EXCEPT ![w] = Tail(@)]
    /\ wpc' = [wpc EXCEPT ![w] = IF Len(wtodo[w]) > 1 THEN "read"
                                 ELSE IF wmode[w] = "on_demand" THEN "done"
                                 ELSE "release"]

\* A worker's loop (run) or a caller invokes sync_all_projects.
Invoke(w) ==
    /\ wpc[w] \in {"idle", "done"}
    /\ runs < MaxSyncRuns
    /\ runs' = runs + 1
    /\ wpc' = [wpc EXCEPT ![w] = "acquire"]
    /\ wres' = [wres EXCEPT ![w] = "none"]
    /\ wsent' = [wsent EXCEPT ![w] = 0]
    /\ overlapped' = (overlapped \/ \E o \in Workers \ {w} :
                                       wpc[o] \notin {"idle", "done"})
    /\ wmode' = [wmode EXCEPT ![w] = "periodic"]
    /\ UNCHANGED <<lock, unsync, now, wtodo, wn, posts, commerceSeen,
                   commerceCharged, lockExpired, wsynced>>
    /\ UNCHANGED <<accrued, wacc>>
    /\ UNCHANGED nonSyncVars

\* A slip: SET without NX.
_acquire_lock_no_nx(w) ==
    /\ lock' = w
    /\ wpc' = [wpc EXCEPT ![w] = "list"]
    /\ UNCHANGED wres

\* _acquire_lock: SET billing:sync:lock <now> NX EX 300; on failure
\* sync_all_projects returns the summary with error "Lock not acquired".
_acquire_lock(w) ==
    IF lock = Null
    THEN /\ lock' = w
         /\ wpc' = [wpc EXCEPT ![w] = "list"]
         /\ UNCHANGED wres
    ELSE /\ wpc' = [wpc EXCEPT ![w] = "done"]
         /\ wres' = [wres EXCEPT ![w] = "Lock not acquired"]
         /\ UNCHANGED lock

Acquire(w) ==
    /\ wpc[w] = "acquire"
    /\ _acquire_lock(w)
    /\ UNCHANGED <<unsync, now, wtodo, wn, wsent, runs, posts, commerceSeen,
                   commerceCharged, overlapped, lockExpired>>
    /\ UNCHANGED <<wmode, wsynced>>
    /\ UNCHANGED <<accrued, wacc>>
    /\ UNCHANGED nonSyncVars

\* The query for the PAYG subscriptions.
ListSubscriptions(w) ==
    /\ wpc[w] = "list"
    /\ wtodo' = [wtodo EXCEPT ![w] = _get_payg_subscriptions]
    /\ wpc' = [wpc EXCEPT ![w] =
                 IF _get_payg_subscriptions = <<>> THEN "release" ELSE "read"]
    /\ UNCHANGED <<lock, unsync, now, wn, wres, wsent, runs, posts,
                   commerceSeen, commerceCharged, overlapped, lockExpired>>
    /\ UNCHANGED <<wmode, wsynced>>
    /\ UNCHANGED <<accrued, wacc>>
    /\ UNCHANGED nonSyncVars

\* _sync_project, _get_unsync_usage: nothing to report when the counter is
\* not positive.
ReadUnsync(w) ==
    /\ wpc[w] = "read"
    /\ LET p == Head(wtodo[w])
       IN  IF unsync[p] <= 0
           THEN /\ NextProject(w)
                /\ wsynced' = [wsynced EXCEPT ![w] = TRUE]
                /\ UNCHANGED wn
           ELSE /\ wn' = [wn EXCEPT ![w] = unsync[p]]
                /\ wpc' = [wpc EXCEPT ![w] = "post"]
                /\ wsynced' = [wsynced EXCEPT ![w] = FALSE]
                /\ UNCHANGED wtodo
    /\ UNCHANGED <<lock, unsync, now, wres, wsent, runs, posts, commerceSeen,
                   commerceCharged, overlapped, lockExpired, wmode>>
    /\ UNCHANGED <<accrued, wacc>>
    /\ UNCHANGED nonSyncVars

\* _sync_project, report_usage: the POST with the hour's idempotency key.
\* outcome "ok": Commerce answered 2xx; "failed": the request did not reach
\* Commerce or was refused; "lost": Commerce processed it and the response
\* was lost (a read timeout).  Every failure is a CommerceError: the
\* project is not marked synced.
PostUsage(w) ==
    /\ wpc[w] = "post"
    /\ \E outcome \in {"ok", "failed", "lost"} :
          LET p     == Head(wtodo[w])
              key   == IdempotencyKey(p, now)
              after == CommerceReceives(commerceSeen, commerceCharged, p,
                                        wn[w], key)
          IN  /\ posts' = Append(posts,
                                 [project |-> p, quantity |-> wn[w],
                                  key |-> key, hour |-> HourOf(now),
                                  outcome |-> outcome])
              /\ wsent' = [wsent EXCEPT ![w] = @ + 1]
              /\ IF outcome = "failed"
                 THEN UNCHANGED <<commerceSeen, commerceCharged>>
                 ELSE /\ commerceSeen' = after.seen
                      /\ commerceCharged' = after.charged
              /\ IF outcome = "ok"
                 THEN /\ wpc' = [wpc EXCEPT ![w] = "decr"]
                      /\ UNCHANGED wtodo
                 ELSE NextProject(w)
    /\ UNCHANGED <<lock, unsync, now, wn, wres, runs, overlapped, lockExpired>>
    /\ UNCHANGED <<wmode, wsynced>>
    /\ UNCHANGED <<accrued, wacc>>
    /\ UNCHANGED nonSyncVars

\* A slip: the counter left as it was.
decrby_none(value, amount) == value

\* DECRBY key amount.
decrby(value, amount) == value - amount

\* _mark_synced: DECRBY by the amount reported ...
MarkSyncedDecr(w) ==
    /\ wpc[w] = "decr"
    /\ unsync' = [unsync EXCEPT ![Head(wtodo[w])] = decrby(@, wn[w])]
    /\ wpc' = [wpc EXCEPT ![w] = "clamp_read"]
    /\ wacc' = [wacc EXCEPT ![w] = accrued[Head(wtodo[w])]]
    /\ UNCHANGED <<lock, now, wtodo, wn, wres, wsent, runs, posts,
                   commerceSeen, commerceCharged, overlapped, lockExpired>>
    /\ UNCHANGED <<wmode, wsynced>>
    /\ UNCHANGED accrued
    /\ UNCHANGED nonSyncVars

\* ... then GET the counter ...
MarkSyncedRead(w) ==
    /\ wpc[w] = "clamp_read"
    /\ IF unsync[Head(wtodo[w])] < 0
       THEN /\ wpc' = [wpc EXCEPT ![w] = "clamp_write"]
            /\ UNCHANGED <<wtodo, wsynced>>
       ELSE /\ NextProject(w)
            /\ wsynced' = [wsynced EXCEPT ![w] = TRUE]
    /\ UNCHANGED <<lock, unsync, now, wn, wres, wsent, runs, posts,
                   commerceSeen, commerceCharged, overlapped, lockExpired,
                   wmode>>
    /\ UNCHANGED <<accrued, wacc>>
    /\ UNCHANGED nonSyncVars

\* ... and SET it to 0 when it was negative.
MarkSyncedClamp(w) ==
    /\ wpc[w] = "clamp_write"
    /\ unsync' = [unsync EXCEPT ![Head(wtodo[w])] = 0]
    /\ NextProject(w)
    /\ wsynced' = [wsynced EXCEPT ![w] = TRUE]
    /\ UNCHANGED <<lock, now, wn, wres, wsent, runs, posts, commerceSeen,
                   commerceCharged, overlapped, lockExpired, wmode>>
    /\ UNCHANGED <<accrued, wacc>>
    /\ UNCHANGED nonSyncVars

\* finally: _release_lock deletes billing:sync:lock.
Release(w) ==
    /\ wpc[w] = "release"
    /\ lock' = Null
    /\ wpc' = [wpc EXCEPT ![w] = "done"]
    /\ wres' = [wres EXCEPT ![w] = "completed"]
    /\ UNCHANGED <<unsync, now, wtodo, wn, wsent, runs, posts, commerceSeen,
                   commerceCharged, overlapped, lockExpired>>
    /\ UNCHANGED <<wmode, wsynced>>
    /\ UNCHANGED <<accrued, wacc>>
    /\ UNCHANGED nonSyncVars

\* The lock's TTL (300 s) runs out while its holder is still at work.
LockExpires ==
    /\ lock # Null
    /\ lock' = Null
    /\ lockExpired' = TRUE
    /\ UNCHANGED <<unsync, now, wpc, wtodo, wn, wres, wsent, runs, posts,
                   commerceSeen, commerceCharged, overlapped>>
    /\ UNCHANGED <<wmode, wsynced>>
    /\ UNCHANGED <<accrued, wacc>>
    /\ UNCHANGED nonSyncVars

\* Time passes.
Tick ==
    /\ now < MaxTime
    /\ now' = now + 1
    /\ UNCHANGED <<lock, unsync, wpc, wtodo, wn, wres, wsent, runs, posts,
                   commerceSeen, commerceCharged, overlapped, lockExpired>>
    /\ UNCHANGED <<wmode, wsynced>>
    /\ UNCHANGED <<accrued, wacc>>
    /\ UNCHANGED nonSyncVars

NextSync ==
    \/ \E w \in Workers : Invoke(w)
    \/ \E w \in Workers : Acquire(w)
    \/ \E w \in Workers : ListSubscriptions(w)
    \/ \E w \in Workers : ReadUnsync(w)
    \/ \E w \in Workers : PostUsage(w)
    \/ \E w \in Workers : MarkSyncedDecr(w)
    \/ \E w \in Workers : MarkSyncedRead(w)
    \/ \E w \in Workers : MarkSyncedClamp(w)
    \/ \E w \in Workers : Release(w)
    \/ LockExpires
    \/ Tick

(***************************************************************************)
(* Usage sync as a service: the worker's task stopped, and the on-demand   *)
(* sync of one project (POST /billing/sync)                                *)
(***************************************************************************)
\* sync_project: the project's row, whatever its tier, with both Commerce
\* ids set ("if not row or not row[0] or not row[1]" is the refusal).
sync_project(project) ==
    /\ subs[project].exists
    /\ subs[project].hanzo_subscription_id # Null
    /\ subs[project].hanzo_customer_id # Null

\* p1 is a PAYG project with 7,500,000 unsynced CU; p2 is a PAYG project,
\* a growth project that Commerce knows, or a free one that it does not,
\* with or without unsynced CU.
InitSyncService ==
    /\ \E t2 \in {PAY_AS_YOU_GO, GROWTH, FREE} :
          subs = [p \in Projects |->
                    IF p = "p1" THEN RowOf(PAY_AS_YOU_GO, "sub_x", "cust_y", Null)
                    ELSE IF t2 = FREE THEN RowOf(FREE, Null, "cust_z", Null)
                    ELSE RowOf(t2, "sub_z", "cust_z", Null)]
    /\ \E u2 \in {0, 2500000} :
          unsync = [p \in Projects |-> IF p = "p1" THEN 7500000 ELSE u2]
    /\ lock = Null
    /\ now = 0
    /\ wpc = [w \in Workers |-> "idle"]
    /\ wtodo = [w \in Workers |-> <<>>]
    /\ wn = [w \in Workers |-> 0]
    /\ wres = [w \in Workers |-> "none"]
    /\ wsent = [w \in Workers |-> 0]
    /\ runs = 0
    /\ posts = <<>>
    /\ commerceSeen = {}
    /\ commerceCharged = [p \in Projects |-> 0]
    /\ overlapped = FALSE
    /\ lockExpired = FALSE
    /\ wmode = [w \in Workers |-> "none"]
    /\ wsynced = [w \in Workers |-> FALSE]
    /\ accrued = unsync
    /\ wacc = [w \in Workers |-> 0]

\* POST /billing/sync -> usage_sync_worker.sync_project(project.id): the
\* row is looked up by project id only, no lock is taken, and the project
\* goes through _sync_project.
SyncProject(w, project) ==
    /\ wpc[w] \in {"idle", "done"}
    /\ runs < MaxSyncRuns
    /\ runs' = runs + 1
    /\ wmode' = [wmode EXCEPT ![w] = "on_demand"]
    /\ wsent' = [wsent EXCEPT ![w] = 0]
    /\ wsynced' = [wsynced EXCEPT ![w] = FALSE]
    /\ overlapped' = (overlapped \/ \E o \in Workers \ {w} :
                                       wpc[o] \notin {"idle", "done"})
    /\ IF sync_project(project)
       THEN /\ wtodo' = [wtodo EXCEPT ![w] = <<project>>]
            /\ wpc' = [wpc EXCEPT ![w] = "read"]
            /\ wres' = [wres EXCEPT ![w] = "none"]
       ELSE /\ wpc' = [wpc EXCEPT ![w] = "done"]
            /\ wres' = [wres EXCEPT ![w] = "No Commerce subscription found"]
            /\ UNCHANGED wtodo
    /\ UNCHANGED <<lock, unsync, now, wn, posts, commerceSeen,
                   commerceCharged, lockExpired>>
    /\ UNCHANGED <<accrued, wacc>>
    /\ UNCHANGED nonSyncVars

\* stop: self._task.cancel() raises CancelledError in the worker's task at
\* the await it is suspended on: the sleep between two runs ("done"), the
\* SET NX, or any await of a run in progress.  Inside the try block of
\* sync_all_projects the finally clause runs _release_lock, which deletes
\* billing:sync:lock whatever its value.  The request the task was waiting
\* on is taken as not performed.
Stop(w) ==
    /\ wmode[w] = "periodic"
    /\ wpc[w] # "cancelled"
    /\ wpc' = [wpc EXCEPT ![w] = "cancelled"]
    /\ lock' = IF wpc[w] \in InSection \ {"release"} THEN Null ELSE lock
    /\ UNCHANGED <<unsync, now, wtodo, wn, wres, wsent, runs, posts,
                   commerceSeen, commerceCharged, overlapped, lockExpired,
                   wmode, wsynced>>
    /\ UNCHANGED <<accrued, wacc>>
    /\ UNCHANGED nonSyncVars

NextSyncService ==
    \/ NextSync
    \/ \E w \in Workers, project \in Projects : SyncProject(w, project)
    \/ \E w \in Workers : Stop(w)

(***************************************************************************)
(* Usage sync while usage accrues                                          *)
(***************************************************************************)
\* The CU one accrual adds to a project's unsync counter.
FreshUsage == 1000000

\* The CU a project's counter is followed up to.
MaxAccrued == 8500000

\* Usage recorded for a project is added to billing:unsync:cu:{project}
\* (INCRBY), at any moment.
Accrue(project) ==
    /\ accrued[project] + FreshUsage <= MaxAccrued
    /\ unsync' = [unsync EXCEPT ![project] = @ + FreshUsage]
    /\ accrued' = [accrued EXCEPT ![project] = @ + FreshUsage]
    /\ UNCHANGED <<lock, now, wpc, wtodo, wn, wres, wsent, runs, posts,
                   commerceSeen, commerceCharged, overlapped, lockExpired,
                   wmode, wsynced, wacc>>
    /\ UNCHANGED nonSyncVars

\* The projects that are in use while the sync runs.
Accruing == {"p1"}

NextSyncAccrual ==
    \/ NextSync
    \/ \E project \in Accruing : Accrue(project)

(***************************************************************************)
(* Lux fleet API (api/lux/__init__.py), fleet manager                      *)
(* (core/chains/lux.py) and Helm wrapper (core/deploy/helm.py)             *)
(***************************************************************************)
Names      == {"alpha", "beta"}
Clusters   == {"c1", "c2"}
\* two of the three networks of LuxNetwork
LuxNetwork == {"devnet", "testnet"}
\* the requests the API serves at the same time
Requests   == {"r1", "r2"}

\* f"{name}-{network.value}": no network name is a suffix of another, so the
\* string determines the pair and the pair stands for the string.
_fleet_id(name, network) == <<name, network>>

\* f"luxd-{network.value}": one release per network, whatever the name.
_release_name(network) == <<"luxd", network>>

FleetEntry(name, cluster_id, network) ==
    [name |-> name, cluster_id |-> cluster_id, network |-> network]

\* A request slot: the handler, its parameters, where it is suspended, and
\* what it answered.
NoCall ==
    [op |-> "none", name |-> Null, cluster_id |-> Null, network |-> Null,
     pc |-> "idle", code |-> 0, status |-> Null, outcome |-> Null,
     release |-> <<>>, fetched |-> FALSE, installed |-> FALSE,
     removed |-> {}]

InitFleetRegistryIdle ==
    /\ _fleets = [fid \in {} |-> NoCall]
    /\ requests = [r \in Requests |-> NoCall]

\* fleet_id in _fleets, with the check taken out
fleet_exists_unchecked(F, fleet_id) == FALSE

\* fleet_id in _fleets
fleet_exists(F, fleet_id) == fleet_id \in DOMAIN F

\* _fleets[fleet_id] = {...}
WithFleet(F, fleet_id, entry) ==
    [id \in DOMAIN F \cup {fleet_id} |-> IF id = fleet_id THEN entry ELSE F[id]]

\* the comprehension of destroy_fleet, selecting nothing
to_remove_nothing(F, cluster_id, network) == {}

\* to_remove = [fid for fid, fdata in _fleets.items() if ...]
to_remove(F, cluster_id, network) ==
    {fid \in DOMAIN F :
        F[fid].cluster_id = cluster_id /\ F[fid].network = network}

\* for fid in to_remove: del _fleets[fid]
WithoutFleets(F, fids) == [id \in DOMAIN F \ fids |-> F[id]]

\* HelmDeployer.uninstall: True when helm succeeds or its stderr says the
\* release was not found, the HelmError otherwise.
uninstall(helm) ==
    CASE helm = "uninstalled" -> "True"
      [] helm = "not found"   -> "True"
      [] OTHER                -> "HelmError"

UninstallOutcomes == {"uninstalled", "not found", "failed"}

\* LuxFleetManager.create: helm upgrade --install of the network's release;
\* a HelmError becomes a response with status error, not an exception.
create(helm) == IF helm = "ok" THEN "deploying" ELSE "error"

InstallOutcomes == {"ok", "HelmError"}

Answer(call, code) == [call EXCEPT !.pc = "done", !.code = code]

\* POST /fleets up to its first await.
CreateFleet(r) ==
    /\ requests[r] = NoCall
    /\ \E name \in Names, cluster_id \in Clusters, network \in LuxNetwork :
         LET call == [NoCall EXCEPT !.op = "create", !.name = name,
                                    !.cluster_id = cluster_id,
                                    !.network = network]
         IN  IF fleet_exists(_fleets, _fleet_id(name, network))
             THEN requests' = [requests EXCEPT ![r] = Answer(call, 409)]
             ELSE requests' = [requests EXCEPT
                                 ![r] = [call EXCEPT !.pc = "kubeconfig"]]
    /\ UNCHANGED <<_fleets, releases, pods, view>>
    /\ UNCHANGED <<billingVars, otherVars>>

\* DELETE /fleets/{cluster_id}/{network} up to its first await.
DestroyFleet(r) ==
    /\ requests[r] = NoCall
    /\ \E cluster_id \in Clusters, network \in LuxNetwork :
         requests' = [requests EXCEPT
                        ![r] = [NoCall EXCEPT !.op = "destroy",
                                              !.cluster_id = cluster_id,
                                              !.network = network,
                                              !.pc = "kubeconfig"]]
    /\ UNCHANGED <<_fleets, releases, pods, view>>
    /\ UNCHANGED <<billingVars, otherVars>>

\* await _get_kubeconfig(cluster_id): the kubeconfig, or an HTTP 502.
GetKubeconfig(r) ==
    /\ requests[r].pc = "kubeconfig"
    /\ \E ok \in BOOLEAN :
         LET call == [requests[r] EXCEPT !.fetched = TRUE]
         IN  requests' = [requests EXCEPT
                            ![r] = IF ok THEN [call EXCEPT !.pc = "helm"]
                                         ELSE Answer(call, 502)]
    /\ UNCHANGED <<_fleets, releases, pods, view>>
    /\ UNCHANGED <<billingVars, otherVars>>

\* create_fleet from the return of _manager.create to the response.
ManagerCreate(r) ==
    /\ requests[r].op = "create"
    /\ requests[r].pc = "helm"
    /\ \E helm \in InstallOutcomes :
         LET call == requests[r]
             fid  == _fleet_id(call.name, call.network)
         IN  /\ _fleets' = WithFleet(_fleets, fid,
                              FleetEntry(call.name, call.cluster_id,
                                         call.network))
             /\ requests' = [requests EXCEPT
                               ![r] = Answer([call EXCEPT
                                                !.release =
                                                    _release_name(call.network),
                                                !.installed = TRUE,
                                                !.outcome = helm,
                                                !.status = create(helm)],
                                             200)]
    /\ UNCHANGED <<releases, pods, view>>
    /\ UNCHANGED <<billingVars, otherVars>>

\* destroy_fleet from the return of _manager.destroy to the response.
ManagerDestroy(r) ==
    /\ requests[r].op = "destroy"
    /\ requests[r].pc = "helm"
    /\ \E helm \in UninstallOutcomes :
         LET call == [requests[r] EXCEPT
                        !.release = _release_name(requests[r].network),
                        !.outcome = helm]
             fids == to_remove(_fleets, call.cluster_id, call.network)
         IN  IF uninstall(helm) = "True"
             THEN /\ _fleets' = WithoutFleets(_fleets, fids)
                  /\ requests' = [requests EXCEPT
                                    ![r] = Answer([call EXCEPT
                                                     !.removed = fids], 200)]
             ELSE /\ requests' = [requests EXCEPT ![r] = Answer(call, 500)]
                  /\ UNCHANGED _fleets
    /\ UNCHANGED <<releases, pods, view>>
    /\ UNCHANGED <<billingVars, otherVars>>

\* The response leaves; the slot serves the next request.
FleetReply(r) ==
    /\ requests[r].pc = "done"
    /\ requests' = [requests EXCEPT ![r] = NoCall]
    /\ UNCHANGED <<_fleets, releases, pods, view>>
    /\ UNCHANGED <<billingVars, otherVars>>

NextFleet ==
    \/ \E r \in Requests : CreateFleet(r)
    \/ \E r \in Requests : DestroyFleet(r)
    \/ \E r \in Requests : GetKubeconfig(r)
    \/ \E r \in Requests : ManagerCreate(r)
    \/ \E r \in Requests : ManagerDestroy(r)
    \/ \E r \in Requests : FleetReply(r)

(***************************************************************************)
(* Fleet status: get_status and list_fleets over one cluster               *)
(***************************************************************************)
MaxPods == 2

PodCounts == {c \in [total : 0..MaxPods, ready : 0..MaxPods] :
                 c.ready <= c.total}

\* "Determine fleet status" of get_status, repeated in list_fleets.
fleet_status(total, ready_count) ==
    IF total = 0 THEN "deploying"
    ELSE IF ready_count = total THEN "running"
    ELSE IF ready_count > 0 THEN "degraded"
    ELSE "error"

\* deployer.status inside get_status: the revision, or None on HelmError.
helm_revision(released) == IF released THEN "revision" ELSE Null

\* LuxFleetManager.get_status, from the release and the pods it was told.
get_status(released, total, ready_count) ==
    IF total = 0 /\ helm_revision(released) = Null
    THEN [status |-> "error", replicas |-> 0, ready_replicas |-> 0,
          error |-> "No fleet found (no Helm release or pods)"]
    ELSE [status |-> fleet_status(total, ready_count), replicas |-> total,
          ready_replicas |-> ready_count, error |-> Null]

\* deployer.get_statefulsets: HelmDeployer defines no such method.
get_statefulsets(namespace) == "AttributeError"

LuxFleetSummary(network, total, ready_count) ==
    [network |-> network, status |-> fleet_status(total, ready_count),
     replicas |-> total, ready_replicas |-> ready_count]

\* LuxFleetManager.list_fleets: the Helm releases named luxd-{network},
\* then the StatefulSets of the namespaces not seen yet.
list_fleets(R, P, helm_ok) ==
    LET seen_namespaces == IF helm_ok THEN R ELSE {}
        from_helm == {LuxFleetSummary(n, P[n].total, P[n].ready) :
                         n \in seen_namespaces}
        from_sts  == {LuxFleetSummary(n, P[n].total, P[n].ready) :
                         n \in {m \in LuxNetwork \ seen_namespaces :
                                  get_statefulsets(m) # "AttributeError"}}
    IN  from_helm \cup from_sts

NoView ==
    [op |-> "none", network |-> Null, helm_ok |-> TRUE, status |-> Null,
     replicas |-> 0, ready_replicas |-> 0, listed |-> {}]

InitFleetStatusIdle ==
    /\ releases = {}
    /\ pods = [n \in LuxNetwork |-> [total |-> 0, ready |-> 0]]
    /\ view = NoView

InitFleetIdle == InitFleetRegistryIdle /\ InitFleetStatusIdle

InitFleetStatus ==
    /\ releases \in SUBSET LuxNetwork
    /\ pods \in [LuxNetwork -> PodCounts]
    /\ view = NoView

\* helm install or uninstall of a network's release, by anyone.
ReleaseChanges ==
    /\ view = NoView
    /\ \E n \in LuxNetwork :
         releases' = IF n \in releases THEN releases \ {n}
                                       ELSE releases \cup {n}
    /\ UNCHANGED <<_fleets, requests, pods, view>>
    /\ UNCHANGED <<billingVars, otherVars>>

\* Pods of a namespace come, go, become ready or stop being ready.
PodsChange ==
    /\ view = NoView
    /\ \E n \in LuxNetwork, c \in PodCounts :
         /\ c # pods[n]
         /\ pods' = [pods EXCEPT ![n] = c]
    /\ UNCHANGED <<_fleets, requests, releases, view>>
    /\ UNCHANGED <<billingVars, otherVars>>

\* GET /fleets/{cluster_id}/{network}
GetStatus ==
    /\ view = NoView
    /\ \E n \in LuxNetwork :
         LET response == get_status(n \in releases, pods[n].total,
                                    pods[n].ready)
         IN  view' = [NoView EXCEPT !.op = "get_status", !.network = n,
                                    !.status = response.status,
                                    !.replicas = response.replicas,
                                    !.ready_replicas =
                                        response.ready_replicas]
    /\ UNCHANGED <<_fleets, requests, releases, pods>>
    /\ UNCHANGED <<billingVars, otherVars>>

\* GET /fleets?cluster_id=...
ListFleets ==
    /\ view = NoView
    /\ \E helm_ok \in BOOLEAN :
         view' = [NoView EXCEPT !.op = "list_fleets", !.helm_ok = helm_ok,
                                !.listed = list_fleets(releases, pods,
                                                       helm_ok)]
    /\ UNCHANGED <<_fleets, requests, releases, pods>>
    /\ UNCHANGED <<billingVars, otherVars>>

\* The response leaves.
ViewReply ==
    /\ view # NoView
    /\ view' = NoView
    /\ UNCHANGED <<_fleets, requests, releases, pods>>
    /\ UNCHANGED <<billingVars, otherVars>>

NextFleetStatus ==
    \/ ReleaseChanges
    \/ PodsChange
    \/ GetStatus
    \/ ListFleets
    \/ ViewReply

(***************************************************************************)
(* Rolling restart (LuxFleetManager.rolling_restart)                       *)
(***************************************************************************)
\* The luxd pods of the namespace, in the order sorted() gives their names.
PodOrder == <<"luxd-0", "luxd-1", "luxd-2">>
PodNames == {PodOrder[i] : i \in DOMAIN PodOrder}

\* for _ in range(60)
MaxPolls == 60

\* A pod name in the cluster: whether a pod of that name exists, which
\* instance it is (0 the one rolling_restart listed, 1 its replacement) and
\* its Ready condition.
PodOf(present, instance, ready) ==
    [present |-> present, instance |-> instance, ready |-> ready]

\* sorted(pods, key=lambda p: p.name)
sorted(names) == SelectSeq(PodOrder, LAMBDA n : n \in names)

\* HelmDeployer.delete_pod: True when kubectl delete returned 0, False on
\* any HelmError.
delete_pod(kubectl) == kubectl = "deleted"

\* replaced and replaced.ready
replaced_ready(K, name) == K[name].present /\ K[name].ready

\* The restart requests: restart_fleet starts one background task per
\* request.
RestartIds == {"r1", "r2"}

NoRestart ==
    [pc |-> "idle", todo |-> <<>>, restarted |-> <<>>, polls |-> 0,
     deleted |-> <<>>, gates |-> <<>>]

InitRestartIdle ==
    /\ kpods = [n \in PodNames |-> PodOf(TRUE, 0, TRUE)]
    /\ restart = [r \in RestartIds |-> NoRestart]

InitRestart ==
    /\ kpods \in [PodNames -> {PodOf(TRUE, 0, TRUE), PodOf(TRUE, 0, FALSE)}]
    /\ restart = [r \in RestartIds |-> NoRestart]

\* rolling_restart up to the loop over the sorted pods.
RollingRestart(r) ==
    /\ restart[r].pc = "idle"
    /\ restart' = [restart EXCEPT
                     ![r].pc = "delete",
                     ![r].todo = sorted({n \in PodNames : kpods[n].present})]
    /\ UNCHANGED <<kpods, ops, _locks>>
    /\ UNCHANGED <<billingVars, fleetVars, netVars>>

\* await deployer.delete_pod(pod.name, namespace); restarted.append(pod.name)
DeletePod(r) ==
    /\ restart[r].pc = "delete"
    /\ restart[r].todo # <<>>
    /\ \E kubectl \in {"deleted", "failed"} :
         LET name == Head(restart[r].todo)
             gone == delete_pod(kubectl) /\ kpods[name].present
         IN  /\ kpods' = IF gone
                         THEN [kpods EXCEPT ![name].present = FALSE,
                                            ![name].ready = FALSE]
                         ELSE kpods
             /\ restart' = [restart EXCEPT
                              ![r].pc = "poll",
                              ![r].polls = 0,
                              ![r].restarted = Append(@, name),
                              ![r].deleted = Append(@, gone)]
    /\ UNCHANGED <<ops, _locks>>
    /\ UNCHANGED <<billingVars, fleetVars, netVars>>

\* One turn of the wait loop: sleep 5 s, list the pods, look for the name.
PollPods(r) ==
    /\ restart[r].pc = "poll"
    /\ LET name  == Head(restart[r].todo)
           polls == restart[r].polls + 1
           gate  == IF replaced_ready(kpods, name)
                    THEN IF kpods[name].instance = 0
                         THEN "old" ELSE "replacement"
                    ELSE "timeout"
       IN  IF replaced_ready(kpods, name) \/ polls = MaxPolls
           THEN restart' = [restart EXCEPT
                              ![r].pc = "delete", ![r].todo = Tail(@),
                              ![r].polls = polls,
                              ![r].gates = Append(@, gate)]
           ELSE restart' = [restart EXCEPT ![r].polls = polls]
    /\ UNCHANGED <<kpods, ops, _locks>>
    /\ UNCHANGED <<billingVars, fleetVars, netVars>>

\* return restarted
RestartReturns(r) ==
    /\ restart[r].pc = "delete"
    /\ restart[r].todo = <<>>
    /\ restart' = [restart EXCEPT ![r].pc = "done"]
    /\ UNCHANGED <<kpods, ops, _locks>>
    /\ UNCHANGED <<billingVars, fleetVars, netVars>>

\* The StatefulSet controller creates the replacement of a deleted pod.
PodRecreated ==
    /\ \E r \in RestartIds : restart[r].pc # "done"
    /\ \E n \in PodNames :
         /\ ~kpods[n].present
         /\ kpods' = [kpods EXCEPT ![n] = PodOf(TRUE, 1, FALSE)]
    /\ UNCHANGED <<restart, ops, _locks>>
    /\ UNCHANGED <<billingVars, fleetVars, netVars>>

\* A pod passes or fails its readiness probe.
PodReadiness ==
    /\ \E r \in RestartIds : restart[r].pc # "done"
    /\ \E n \in PodNames :
         /\ kpods[n].present
         /\ kpods' = [kpods EXCEPT ![n].ready = ~@]
    /\ UNCHANGED <<restart, ops, _locks>>
    /\ UNCHANGED <<billingVars, fleetVars, netVars>>

\* One restart request.
NextRestart ==
    \/ RollingRestart("r1")
    \/ DeletePod("r1")
    \/ PollPods("r1")
    \/ RestartReturns("r1")
    \/ PodRecreated
    \/ PodReadiness

\* Polls of one wait that are followed when several restart requests run.
MaxPairPolls == 2

\* Restart requests accepted concurrently: restart_fleet takes no lock and
\* looks at no restart in progress.
NextRestartPair ==
    \/ \E r \in RestartIds : RollingRestart(r)
    \/ \E r \in RestartIds : DeletePod(r)
    \/ \E r \in RestartIds : restart[r].polls < MaxPairPolls /\ PollPods(r)
    \/ \E r \in RestartIds : RestartReturns(r)
    \/ PodRecreated
    \/ PodReadiness

(***************************************************************************)
(* Helm wrapper operations (core/deploy/helm.py) as the fleet manager and  *)
(* the API run them: kubeconfig, deployer, lock, child process, cleanup    *)
(***************************************************************************)
HelmOps == {"install", "upgrade", "uninstall", "rollback"}

\* do_get_kubeconfig: the HTTP fetch, then doctl only under
\* "except httpx.HTTPError"; a non-200 answer raises an HTTPException,
\* which that clause does not catch.
do_get_kubeconfig(http, doctl) ==
    CASE http = "200" ->
           [result |-> "kubeconfig", doctl_tried |-> FALSE]
      [] http = "non-200" ->
           [result |-> "HTTPException", doctl_tried |-> FALSE]
      [] OTHER ->
           [result |-> IF doctl = "exit 0" THEN "kubeconfig"
                                           ELSE "HTTPException",
            doctl_tried |-> TRUE]

\* LuxFleetManager._get_deployer: every call builds a new HelmDeployer,
\* with its own _locks; the deployer is named after the request it serves.
_get_deployer(r) == r

\* HelmDeployer._get_lock: the lock of a release name in one deployer.
_get_lock(L, deployer, release_name) == <<deployer, release_name>>

\* HelmDeployer.cleanup_temp_files: unlink the tracked files.
cleanup_temp_files(files, tracked) == files \ tracked

\* install and upgrade write a values file, uninstall and rollback none.
WritesValues(op) == op \in {"install", "upgrade"}

\* HelmDeployer._run after the child was started: what the wait ends with,
\* and what becomes of the child.  proc.kill() is called under
\* "except asyncio.TimeoutError" only.
_run(wait) ==
    CASE wait = "exit 0"    -> [exit |-> "returned", child |-> "exited"]
      [] wait = "exit 1"    -> [exit |-> "HelmError", child |-> "exited"]
      [] wait = "timeout"   -> [exit |-> "HelmError timeout",
                                child |-> "killed"]
      [] OTHER              -> [exit |-> "CancelledError",
                                child |-> "running"]

WaitOutcomes == {"exit 0", "exit 1", "timeout", "cancelled"}

NoOp ==
    [op |-> "none", release |-> <<>>, pc |-> "idle", http |-> Null,
     doctl_tried |-> FALSE, files |-> {}, tracked |-> {},
     child |-> "none", exit |-> Null]

InitDeployerIdle ==
    /\ ops = [r \in Requests |-> NoOp]
    /\ _locks = {}

\* A fleet request that ends in a Helm operation on the network's release.
BeginOp(r) ==
    /\ ops[r] = NoOp
    /\ \E op \in HelmOps, network \in LuxNetwork :
         ops' = [ops EXCEPT ![r] = [NoOp EXCEPT
                                      !.op = op,
                                      !.release = _release_name(network),
                                      !.pc = "kubeconfig"]]
    /\ UNCHANGED <<_locks, kpods, restart>>
    /\ UNCHANGED <<billingVars, fleetVars, netVars>>

\* await _get_kubeconfig(cluster_id)
DoGetKubeconfig(r) ==
    /\ ops[r].pc = "kubeconfig"
    /\ \E http \in {"200", "non-200", "HTTPError"},
          doctl \in {"exit 0", "exit 1", "FileNotFoundError"} :
         LET got  == do_get_kubeconfig(http, doctl)
             call == [ops[r] EXCEPT !.http = http,
                                    !.doctl_tried = got.doctl_tried]
         IN  ops' = [ops EXCEPT
                       ![r] = IF got.result = "kubeconfig"
                              THEN [call EXCEPT !.pc = "deployer"]
                              ELSE [call EXCEPT !.pc = "done",
                                                !.exit = "HTTPException"]]
    /\ UNCHANGED <<_locks, kpods, restart>>
    /\ UNCHANGED <<billingVars, fleetVars, netVars>>

\* deployer = await self._get_deployer(kubeconfig): the kubeconfig file is
\* created, written, and only then tracked; the try/finally of the
\* operation starts after the call.
GetDeployer(r) ==
    /\ ops[r].pc = "deployer"
    /\ \E written \in BOOLEAN :
         ops' = [ops EXCEPT
                   ![r] = IF written
                          THEN [@ EXCEPT !.pc = "lock",
                                         !.files = {"kubeconfig"},
                                         !.tracked = {"kubeconfig"}]
                          ELSE [@ EXCEPT !.pc = "done",
                                         !.files = {"kubeconfig"},
                                         !.exit = "OSError"]]
    /\ UNCHANGED <<_locks, kpods, restart>>
    /\ UNCHANGED <<billingVars, fleetVars, netVars>>

\* async with self._get_lock(release_name), the values file, and the start
\* of the helm child process.
StartHelm(r) ==
    /\ ops[r].pc = "lock"
    /\ LET held == _get_lock(_locks, _get_deployer(r), ops[r].release)
       IN  /\ held \notin _locks
           /\ \E written \in BOOLEAN :
                IF WritesValues(ops[r].op) /\ ~written
                THEN /\ ops' = [ops EXCEPT
                                  ![r] = [@ EXCEPT
                                     !.pc = "done",
                                     !.files = cleanup_temp_files(
                                         @ \cup {"values"}, ops[r].tracked),
                                     !.tracked = {},
                                     !.exit = "OSError"]]
                     /\ UNCHANGED _locks
                ELSE /\ ops' = [ops EXCEPT
                                  ![r] = [@ EXCEPT
                                     !.pc = "helm",
                                     !.files = IF WritesValues(ops[r].op)
                                               THEN @ \cup {"values"} ELSE @,
                                     !.tracked = IF WritesValues(ops[r].op)
                                                 THEN @ \cup {"values"} ELSE @,
                                     !.child = "running"]]
                     /\ _locks' = _locks \cup {held}
    /\ UNCHANGED <<kpods, restart>>
    /\ UNCHANGED <<billingVars, fleetVars, netVars>>

\* The wait of _run ends; the lock is released and the finally clause of
\* the manager's operation cleans up.
HelmEnds(r) ==
    /\ ops[r].pc = "helm"
    /\ \E wait \in WaitOutcomes :
         LET ran == _run(wait)
         IN  ops' = [ops EXCEPT
                       ![r] = [@ EXCEPT
                                 !.pc = "done",
                                 !.child = ran.child,
                                 !.exit = ran.exit,
                                 !.files = cleanup_temp_files(
                                               @, ops[r].tracked),
                                 !.tracked = {}]]
    /\ _locks' = _locks \ {_get_lock(_locks, _get_deployer(r),
                                     ops[r].release)}
    /\ UNCHANGED <<kpods, restart>>
    /\ UNCHANGED <<billingVars, fleetVars, netVars>>

\* The request is over; the slot serves the next one.
OpReply(r) ==
    /\ ops[r].pc = "done"
    /\ ops' = [ops EXCEPT ![r] = NoOp]
    /\ UNCHANGED <<_locks, kpods, restart>>
    /\ UNCHANGED <<billingVars, fleetVars, netVars>>

NextDeployer ==
    \/ \E r \in Requests : BeginOp(r)
    \/ \E r \in Requests : DoGetKubeconfig(r)
    \/ \E r \in Requests : GetDeployer(r)
    \/ \E r \in Requests : StartHelm(r)
    \/ \E r \in Requests : HelmEnds(r)
    \/ \E r \in Requests : OpReply(r)

(***************************************************************************)
(* Network launcher (api/networks/__init__.py)                             *)
(***************************************************************************)
Slugs == {"lux", "zoo"}

\* launches the registry is followed through
MaxNetworks == 2

\* _tier_defaults(NetworkTier.STARTER)["web_replicas"]
StarterWebReplicas == 2

\* NetworkScale.web_replicas as the scale requests of the model give it
ScaleRequests == {3}

\* network = {...} as launch_network registers it: PROVISIONING, no error.
\* pc, web and ingress follow the launch coroutine of this network, del
\* the delete_network coroutine, scaling the scale_network coroutine (the
\* replicas it asked kubectl for, 0 when there is none).
NewNetwork(name) ==
    [name |-> name, status |-> "provisioning", error |-> Null,
     pc |-> "web", web |-> "none", ingress |-> "none", del |-> "none",
     web_replicas |-> StarterWebReplicas, scaling |-> 0]

DeployOutcomes == {"ok", "failed", "raised"}

\* the deploy step counted as successful whatever it returned
deployed_always(outcome) == TRUE

\* "ok = await _deploy_...()" went through: no exception and ok is true.
deployed(outcome) == outcome = "ok"

\* What kubectl apply leaves in the cluster: a manifest is applied when
\* the command succeeded.
Applied(A, name, part, outcome) ==
    IF outcome = "ok" THEN A \cup {<<name, part>>} ELSE A

InitNetIdle ==
    /\ _networks = <<>>
    /\ applied = {}
    /\ web_scale = [s \in Slugs |-> 0]

\* POST /networks up to the await of _deploy_web.
LaunchNetwork ==
    /\ Len(_networks) < MaxNetworks
    /\ \E name \in Slugs : _networks' = Append(_networks, NewNetwork(name))
    /\ UNCHANGED <<applied, web_scale>>
    /\ UNCHANGED <<billingVars, fleetVars, deployVars>>

\* launch_network from the return of _deploy_web to the next await.
DeployWeb(id) ==
    /\ id \in DOMAIN _networks
    /\ _networks[id].pc = "web"
    /\ \E outcome \in DeployOutcomes :
         /\ applied' = Applied(applied, _networks[id].name, "web", outcome)
         /\ web_scale' = IF outcome = "ok"
                         THEN [web_scale EXCEPT ![_networks[id].name] =
                                                   StarterWebReplicas]
                         ELSE web_scale
         /\ _networks' =
              [_networks EXCEPT
                 ![id] = IF deployed(outcome)
                         THEN [@ EXCEPT !.web = outcome, !.pc = "ingress"]
                         ELSE [@ EXCEPT
                                 !.web = outcome,
                                 !.pc = "done",
                                 !.status = "error",
                                 !.error = IF outcome = "failed"
                                           THEN "Failed to deploy web frontend"
                                           ELSE "str(e)"]]
    /\ UNCHANGED <<billingVars, fleetVars, deployVars>>

\* launch_network from the return of _deploy_ingress to the response.
DeployIngress(id) ==
    /\ id \in DOMAIN _networks
    /\ _networks[id].pc = "ingress"
    /\ \E outcome \in DeployOutcomes :
         /\ applied' = Applied(applied, _networks[id].name, "ingress",
                               outcome)
         /\ UNCHANGED web_scale
         /\ _networks' =
              [_networks EXCEPT
                 ![id] = IF deployed(outcome)
                         THEN [@ EXCEPT !.ingress = outcome, !.pc = "done",
                                        !.status = "running"]
                         ELSE [@ EXCEPT
                                 !.ingress = outcome,
                                 !.pc = "done",
                                 !.status = "error",
                                 !.error = IF outcome = "failed"
                                           THEN "Failed to deploy ingresses"
                                           ELSE "str(e)"]]
    /\ UNCHANGED <<billingVars, fleetVars, deployVars>>

\* DELETE /networks/{network_id} up to its first await.
DeleteNetwork(id) ==
    /\ id \in DOMAIN _networks
    /\ _networks[id].del = "none"
    /\ _networks' = [_networks EXCEPT ![id].status = "deleting",
                                      ![id].del = "deleting"]
    /\ UNCHANGED <<applied, web_scale>>
    /\ UNCHANGED <<billingVars, fleetVars, deployVars>>

\* delete_network after its kubectl delete commands.
NetworkDeleted(id) ==
    /\ id \in DOMAIN _networks
    /\ _networks[id].del = "deleting"
    /\ _networks' = [_networks EXCEPT ![id].status = "deleted",
                                      ![id].del = "deleted"]
    /\ applied' = {a \in applied : a[1] # _networks[id].name}
    /\ web_scale' = [web_scale EXCEPT ![_networks[id].name] = 0]
    /\ UNCHANGED <<billingVars, fleetVars, deployVars>>

NextNetwork ==
    \/ LaunchNetwork
    \/ \E id \in 1..MaxNetworks : DeployWeb(id)
    \/ \E id \in 1..MaxNetworks : DeployIngress(id)
    \/ \E id \in 1..MaxNetworks : DeleteNetwork(id)
    \/ \E id \in 1..MaxNetworks : NetworkDeleted(id)

\* kubectl scale deployment/{name}-cloud-web --replicas=n: the exit codes it
\* can end with; there is nothing to scale when the web manifest is not
\* applied.
ScaleOutcomes(A, name) ==
    IF <<name, "web">> \in A THEN {"ok", "failed"} ELSE {"failed"}

\* POST /networks/{network_id}/scale with web_replicas, up to the await of
\* proc.communicate().
ScaleNetwork(id) ==
    /\ id \in DOMAIN _networks
    /\ _networks[id].scaling = 0
    /\ \E web_replicas \in ScaleRequests :
         _networks' = [_networks EXCEPT ![id].scaling = web_replicas]
    /\ UNCHANGED <<applied, web_scale>>
    /\ UNCHANGED <<billingVars, fleetVars, deployVars>>

\* scale_network after kubectl ended: network["web_replicas"] =
\* req.web_replicas, the response.
NetworkScaled(id) ==
    /\ id \in DOMAIN _networks
    /\ _networks[id].scaling # 0
    /\ \E kubectl \in ScaleOutcomes(applied, _networks[id].name) :
         web_scale' = IF kubectl = "ok"
                      THEN [web_scale EXCEPT ![_networks[id].name] =
                                                _networks[id].scaling]
                      ELSE web_scale
    /\ _networks' = [_networks EXCEPT ![id].web_replicas = _networks[id].scaling,
                                      ![id].scaling = 0]
    /\ UNCHANGED applied
    /\ UNCHANGED <<billingVars, fleetVars, deployVars>>

\* The launcher with scale requests.
NextNetworkScale ==
    \/ NextNetwork
    \/ \E id \in 1..MaxNetworks : ScaleNetwork(id)
    \/ \E id \in 1..MaxNetworks : NetworkScaled(id)

\* Everything outside the billing core and the fleet registry, idle.
InitOtherIdle == InitRestartIdle /\ InitDeployerIdle /\ InitNetIdle

(***************************************************************************)
(* Specifications                                                          *)
(***************************************************************************)
InitCost == InitCostIdle /\ InitTrackIdle /\ InitDbIdle /\ InitSyncIdle /\ InitHookIdle
            /\ InitFleetIdle /\ InitOtherIdle
NextCost == CalculateMonthlyCost
SpecCost == InitCost /\ [][NextCost]_vars

\* The tracker with its buffer flushes and the datastore coming and going.
InitTracker == InitCostIdle /\ InitTrack /\ InitDbIdle /\ InitSyncIdle /\ InitHookIdle
               /\ InitFleetIdle /\ InitOtherIdle
NextTracker ==
    \/ Track
    \/ FlushAllBuffers
    \/ DatastoreChanges
    \/ NextMonth
SpecTracker == InitTracker /\ [][NextTracker]_vars

\* The tracker with the quota gate.
InitQuota ==
    /\ InitCostIdle
    /\ InitTrack
    /\ InitDbIdle
    /\ InitSyncIdle
    /\ InitHookIdle
    /\ InitFleetIdle /\ InitOtherIdle
    /\ dsConnected
    /\ buffer = [p \in Projects |-> 0]
NextQuota ==
    \/ Track
    \/ CheckQuota
    \/ NextMonth
SpecQuota == InitQuota /\ [][NextQuota]_vars

\* The sync workers, the lock, the clock and Commerce.
InitSyncSpec == InitCostIdle /\ InitTrackIdle /\ InitSync /\ InitHookIdle
                /\ InitFleetIdle /\ InitOtherIdle
SpecSync == InitSyncSpec /\ [][NextSync]_vars

\* The sync workers with their tasks stopped and projects synced on
\* demand.
InitSyncServiceSpec == InitCostIdle /\ InitTrackIdle /\ InitSyncService
                       /\ InitHookIdle /\ InitFleetIdle /\ InitOtherIdle
SpecSyncService == InitSyncServiceSpec /\ [][NextSyncService]_vars

\* Two restart requests for one cluster and network, over ready pods.
InitRestartPairSpec == InitCostIdle /\ InitTrackIdle /\ InitDbIdle /\ InitSyncIdle
                       /\ InitHookIdle /\ InitFleetIdle /\ InitOtherIdle
SpecRestartPair == InitRestartPairSpec /\ [][NextRestartPair]_vars

\* The periodic sync while the projects' usage accrues.
SpecSyncAccrual == InitSyncSpec /\ [][NextSyncAccrual]_vars

\* The webhook endpoint, from an empty Subscription table.
InitWebhook == InitCostIdle /\ InitTrackIdle /\ InitDbIdle /\ InitSyncIdle /\ InitHook
               /\ InitFleetIdle /\ InitOtherIdle
SpecWebhook == InitWebhook /\ [][NextWebhook]_vars

\* The lifecycle of Subscription rows under signed events, from an empty
\* table.
InitLifecycle == InitCostIdle /\ InitTrackIdle /\ InitDbIdle /\ InitSyncIdle /\ InitHookIdle
                 /\ InitFleetIdle /\ InitOtherIdle
SpecLifecycle == InitLifecycle /\ [][NextLifecycle]_vars

\* The fleet registry under concurrent create and destroy requests.
InitFleet == InitCostIdle /\ InitTrackIdle /\ InitDbIdle /\ InitSyncIdle
             /\ InitHookIdle /\ InitFleetRegistryIdle /\ InitFleetStatusIdle
             /\ InitOtherIdle
SpecFleet == InitFleet /\ [][NextFleet]_vars

\* Fleet status as read from a cluster whose releases and pods change.
InitFleetStatusSpec == InitCostIdle /\ InitTrackIdle /\ InitDbIdle /\ InitSyncIdle
                       /\ InitHookIdle /\ InitFleetRegistryIdle /\ InitFleetStatus
                       /\ InitOtherIdle
SpecFleetStatus == InitFleetStatusSpec /\ [][NextFleetStatus]_vars

\* One rolling restart over pods that the cluster recreates and probes.
InitRestartSpec == InitCostIdle /\ InitTrackIdle /\ InitDbIdle /\ InitSyncIdle
                   /\ InitHookIdle /\ InitFleetIdle /\ InitRestart
                   /\ InitDeployerIdle /\ InitNetIdle
SpecRestart == InitRestartSpec /\ [][NextRestart]_vars

\* Two concurrent fleet requests, each running one Helm operation.
InitDeployerSpec == InitCostIdle /\ InitTrackIdle /\ InitDbIdle /\ InitSyncIdle
                    /\ InitHookIdle /\ InitFleetIdle /\ InitOtherIdle
SpecDeployer == InitDeployerSpec /\ [][NextDeployer]_vars

\* Network launches and deletions, interleaved at their awaits.
InitNetworkSpec == InitCostIdle /\ InitTrackIdle /\ InitDbIdle /\ InitSyncIdle
                   /\ InitHookIdle /\ InitFleetIdle /\ InitOtherIdle
SpecNetwork == InitNetworkSpec /\ [][NextNetwork]_vars

\* The network launcher with scale requests.
SpecNetworkScale == InitNetworkSpec /\ [][NextNetworkScale]_vars

(***************************************************************************)
(* Claims                                                                  *)
(***************************************************************************)

\* C3: for every project, get_current_usage (KV store available) equals
\* the sum of the CU costs of the track calls of the current UTC month
\* whose increment reached the KV store: the supplied cost, or the
\* catalog cost of the method when none was supplied.
C3_UsageIsSumOfCosts ==
    \A p \in Projects : get_current_usage(p, TRUE) = sumCost[p][month]

\* Two track calls for p2 in month 0, a catalog cost of 5 and the default
\* cost of 10, have been counted.
C3_Witness ==
    /\ nTracks = 2
    /\ month = 0
    /\ sumCost["p2"][0] = 15
    /\ get_current_usage("p2", TRUE) = 15

\* C4: when a flush of a project's buffer is attempted while the columnar
\* datastore is not connected (the automatic flush at 100 records
\* included), the flush does nothing: the cu:buffer list is what it was
\* when the flush was attempted, and the monthly counter still is the sum
\* of the tracked costs.
C4_FlushSkippedWhenDisconnected ==
    \A p \in Projects :
        (lastFlush[p].tried /\ ~lastFlush[p].connected) =>
            /\ buffer[p] = lastFlush[p].buf
            /\ usage[p][month] = sumCost[p][month]

\* The automatic flush of a full buffer was attempted with the datastore
\* down, after two tracked calls.
C4_Witness ==
    /\ lastFlush["p1"].tried
    /\ ~lastFlush["p1"].connected
    /\ lastFlush["p1"].buf >= BatchSize
    /\ buffer["p1"] = BatchSize
    /\ nTracks = 2

C6_Original ==
    /\ costTier \in {FREE, ENTERPRISE} => costResult = 0
    /\ costTier = PAY_AS_YOU_GO => costResult = (costCU \div 1000000) * 40
    /\ (costTier = GROWTH /\ costCU <= 100000000) => costResult = 0

\* C6 amended: free and enterprise cost 0; PAYG costs
\* floor(n * 40 / 1,000,000) cents, one cent for every complete 25,000 CU
\* (partial millions are billed pro rata); growth costs
\* floor((n - 100,000,000) * 35 / 1,000,000) cents above the included
\* 100,000,000 CU and 0 up to there.
C6_CostPerTier ==
    /\ costTier \in {FREE, ENTERPRISE} => costResult = 0
    /\ costTier = PAY_AS_YOU_GO =>
          /\ costResult * 25000 <= costCU
          /\ costCU < (costResult + 1) * 25000
    /\ costTier = GROWTH =>
          IF costCU <= 100000000 THEN costResult = 0
          ELSE /\ costResult * 1000000 <= (costCU - 100000000) * 35
               /\ (costCU - 100000000) * 35 < (costResult + 1) * 1000000

\* 1,500,000 CU on PAYG cost 60 cents.
C6_Witness ==
    /\ costTier = PAY_AS_YOU_GO
    /\ costCU = 1500000
    /\ costResult = 60

(***************************************************************************)
(* Usage sync: the lock and the idempotency key                            *)
(***************************************************************************)
\* The usage POSTs made for one project, in order.
PostsFor(project) == SelectSeq(posts, LAMBDA r : r.project = project)

AllDone == \A w \in Workers : wpc[w] = "done"

EveryPostAccepted == \A i \in 1..Len(posts) : posts[i].outcome = "ok"

FirstDeliveredInHour(k) ==
    /\ posts[k].outcome # "failed"
    /\ \A j \in 1..(k - 1) :
          ~(/\ posts[j].project = posts[k].project
            /\ posts[j].hour = posts[k].hour
            /\ posts[j].outcome # "failed")

\* What Commerce has counted for the project when each hour's posts count
\* once, over the first k posts.
RECURSIVE CountedOncePerHour(_, _)
CountedOncePerHour(project, k) ==
    IF k = 0 THEN 0
    ELSE CountedOncePerHour(project, k - 1)
         + (IF posts[k].project = project /\ FirstDeliveredInHour(k)
            THEN posts[k].quantity ELSE 0)

\* C2: the usage POSTs made for one project within one UTC hour carry the
\* same idempotency key, the project and that hour, so that Commerce, which
\* ignores a key it has seen, counts the retries of one hour once.
C2_SameHourSameKey ==
    /\ \A i, j \in 1..Len(posts) :
          (posts[i].project = posts[j].project /\ posts[i].hour = posts[j].hour)
              => posts[i].key = posts[j].key
    /\ \A i \in 1..Len(posts) : posts[i].key = <<posts[i].project, posts[i].hour>>
    /\ \A p \in Projects : commerceCharged[p] = CountedOncePerHour(p, Len(posts))

\* A sync whose POST reached Commerce but was reported as failed, retried
\* in the same hour, at a later tick, with the counter still at 7,500,000.
C2_Witness ==
    /\ Len(posts) = 2
    /\ now = 1
    /\ posts[1].project = "p1" /\ posts[2].project = "p1"
    /\ posts[1].hour = posts[2].hour
    /\ posts[1].outcome = "lost" /\ posts[2].outcome = "ok"
    /\ posts[1].quantity = 7500000 /\ posts[2].quantity = 7500000
    /\ posts[1].key = posts[2].key
    /\ commerceCharged["p1"] = 7500000

(***************************************************************************)
(* Commerce webhooks                                                       *)
(***************************************************************************)
\* C7 as stated: with a webhook secret configured, a request whose
\* X-Commerce-Signature differs from HMAC-SHA256(secret, raw body) is
\* answered 401, handle_event is not called, and no row and no cache key
\* changes.
C7_BadSignatureAnswered401 ==
    (webhook_secret # "" /\ last.status # 0 /\ last.differs)
        => /\ last.status = 401
           /\ ~last.reached
           /\ ~last.changed

\* C8 as stated: handle_event raises for no event; an unknown type is
\* answered handled=false with reason "unknown_type" and changes nothing;
\* an exception of a handler comes back as handled=false with the error;
\* the endpoint answers 200.
C8_HandleEventNeverRaises ==
    last.body = "event"
        => /\ ~last.raised
           /\ last.status = 200
           /\ last.type \notin HandledTypes
                 => (~last.handled /\ last.reason = "unknown_type" /\ ~last.changed)
           /\ last.error = "exception" => ~last.handled

C10_LimitsMatchCatalog ==
    \A p \in Projects :
        subs[p].exists =>
            /\ subs[p].tier \in PricingTier
            /\ subs[p].monthly_cu_limit = TIER_LIMITS[subs[p].tier].monthly_cu
            /\ subs[p].rate_limit_per_second
                   = TIER_LIMITS[subs[p].tier].rate_limit_per_second
            /\ subs[p].max_apps = TIER_LIMITS[subs[p].tier].max_apps
            /\ subs[p].max_webhooks = TIER_LIMITS[subs[p].tier].max_webhooks

\* An immediate cancellation has just brought p1 down to the free limits,
\* next to an enterprise row.
C10_Witness ==
    /\ last.type = "subscription.cancelled" /\ last.changed /\ last.handled
    /\ subs["p1"].exists /\ subs["p1"].tier = FREE
    /\ subs["p1"].hanzo_subscription_id = Null
    /\ subs["p1"].scheduled_tier = Null
    /\ subs["p1"].monthly_cu_limit = 30000000
    /\ subs["p1"].max_webhooks = 5
    /\ subs["p2"].exists /\ subs["p2"].tier = ENTERPRISE
    /\ subs["p2"].max_webhooks = 500

(***************************************************************************)
(* Subscription rows under webhook events                                  *)
(***************************************************************************)
\* The tier order: free < payg < growth < enterprise.
TierRank(tier) ==
    CASE tier = FREE -> 0
      [] tier = PAY_AS_YOU_GO -> 1
      [] tier = GROWTH -> 2
      [] tier = ENTERPRISE -> 3

\* C11 as stated: a row's scheduled_tier is null or strictly lower in the
\* tier order than the row's tier.
C11_ScheduledTierLower ==
    \A p \in Projects :
        (subs[p].exists /\ subs[p].scheduled_tier # Null)
            => TierRank(subs[p].scheduled_tier) < TierRank(subs[p].tier)

\* C12 as stated: a row whose tier is payg, growth or enterprise has a
\* Commerce subscription id.
C12_PaidTierHasSubscriptionId ==
    \A p \in Projects :
        (subs[p].exists /\ subs[p].tier # FREE)
            => subs[p].hanzo_subscription_id # Null

\* C14 as stated, for subscription.updated: an update that arrives when no
\* row carries its subscription id (and whose handler meets no failure)
\* is not rejected: it results in a row, so a row or a cache key changes.
C14_UpdateUpsertsMissingRow ==
    (/\ last.type = "subscription.updated"
     /\ last.found = 0
     /\ last.fault = "none")
        => /\ last.error # "subscription_not_found"
           /\ \E p \in Projects : subs[p].exists

\* The delivery went through: its handler met no failure and returned no
\* error.
WentThrough ==
    delivered.fault = "none" /\ delivered.handled /\ delivered.error = ""

C16_ReactivatedAfterCancelled ==
    (/\ delivered.type = "subscription.reactivated"
     /\ delivered.fault = "none"
     /\ delivered.cancelled_row # Null)
        => LET p == delivered.cancelled_row
               tier == PlanTier(PlanSlugOrDefault(delivered.data.plan_slug))
           IN  /\ delivered.error = ""
               /\ subs[p].tier = tier
               /\ subs[p].monthly_cu_limit = TIER_LIMITS[tier].monthly_cu
               /\ subs[p].scheduled_tier = Null

\* The registered fleets of a (cluster, network) pair.
FleetsOf(F, cluster_id, network) ==
    {fid \in DOMAIN F :
        F[fid].cluster_id = cluster_id /\ F[fid].network = network}

\* C17: a create-fleet request whose fleet_id (name, network) is in the
\* registry when it arrives is answered 409 without having fetched a
\* kubeconfig or invoked Helm install, and leaves the registry as it was.
C17_DuplicateRejected ==
    [][\A r \in Requests :
         ( /\ requests[r] = NoCall
           /\ requests'[r].op = "create"
           /\ <<requests'[r].name, requests'[r].network>> \in DOMAIN _fleets )
         => /\ requests'[r].pc = "done"
            /\ requests'[r].code = 409
            /\ ~requests'[r].fetched
            /\ ~requests'[r].installed
            /\ _fleets' = _fleets]_vars

\* A create was answered 409 for a fleet_id that is registered.
C17_Witness ==
    \E r \in Requests :
        /\ requests[r].op = "create"
        /\ requests[r].code = 409
        /\ <<requests[r].name, requests[r].network>> \in DOMAIN _fleets

\* C18: the registry never holds two fleets of the same (cluster_id,
\* network) pair.
C18_OneFleetPerPair ==
    \A cluster_id \in Clusters, network \in LuxNetwork :
        Cardinality(FleetsOf(_fleets, cluster_id, network)) <= 1

\* C19: when a destroy of (cluster, network) is answered 200, whether Helm
\* uninstalled the release or reported it not found, the registry holds no
\* entry of that pair, and none of the fleet ids its entries had: a create
\* of the same name and network passes the registry check.
C19_DestroyClearsPair ==
    [][\A r \in Requests :
         ( /\ requests[r].op = "destroy"
           /\ requests[r].pc = "helm"
           /\ requests'[r].pc = "done"
           /\ requests'[r].code = 200 )
         => /\ FleetsOf(_fleets', requests[r].cluster_id,
                        requests[r].network) = {}
            /\ \A fid \in FleetsOf(_fleets, requests[r].cluster_id,
                                    requests[r].network) :
                   fid \notin DOMAIN _fleets']_vars

\* A destroy whose release Helm did not find was answered 200 and took an
\* entry out of the registry.
C19_Witness ==
    \E r \in Requests :
        /\ requests[r].op = "destroy"
        /\ requests[r].code = 200
        /\ requests[r].outcome = "not found"
        /\ requests[r].removed # {}
        /\ \A fid \in requests[r].removed : fid \notin DOMAIN _fleets

\* C20: the status get_status and list_fleets return for a fleet is
\* deploying when total = 0, running when ready = total > 0, degraded
\* when 0 < ready < total and error when ready = 0 < total, with or
\* without a Helm release.
StatusByCounts(total, ready) ==
    IF total = 0 THEN "deploying"
    ELSE IF ready = total THEN "running"
    ELSE IF ready > 0 THEN "degraded"
    ELSE "error"

C20_StatusFromPodCounts ==
    /\ view.op = "get_status"
        => view.status = StatusByCounts(pods[view.network].total,
                                        pods[view.network].ready)
    /\ (view.op = "list_fleets" /\ view.helm_ok)
        => \A n \in LuxNetwork :
              (n \in releases \/ pods[n].total > 0)
              => \E s \in view.listed :
                    /\ s.network = n
                    /\ s.status = StatusByCounts(pods[n].total,
                                                 pods[n].ready)

\* C21: rolling_restart deletes the pods one at a time in the order of
\* their names, and issues the next delete only after it has seen the
\* replacement of the pod it deleted (not the instance it listed) with
\* ready = true, or after 60 polls; it returns the names in that order.
C21_RestartGated ==
    /\ restart["r1"].restarted = SubSeq(PodOrder, 1, Len(restart["r1"].restarted))
    /\ Len(restart["r1"].restarted) <= Len(restart["r1"].gates) + 1
    /\ \A i \in DOMAIN restart["r1"].gates :
          restart["r1"].gates[i] \in {"replacement", "timeout"}


\* C22: two Helm operations on the same release name, issued by
\* concurrent requests, never have their helm invocations running at the
\* same time.
C22_SameReleaseSerialized ==
    \A r1, r2 \in Requests :
        (r1 # r2 /\ ops[r1].pc = "helm" /\ ops[r2].pc = "helm")
        => ops[r1].release # ops[r2].release

\* C23: when an operation has finished, by returning, raising or being
\* cancelled, no temp file it created (kubeconfig, values) is left.
C23_TempFilesRemoved ==
    \A r \in Requests : ops[r].pc = "done" => ops[r].files = {}

\* C24: when the wait for a helm or kubectl child ended by a timeout or by
\* cancellation, the child has been killed when the operation ends, and a
\* timeout is reported as a HelmError timeout.
C24_ChildKilled ==
    \A r \in Requests :
        (ops[r].pc = "done" /\ ops[r].child # "none")
        => /\ ops[r].child \in {"exited", "killed"}
           /\ ops[r].child = "killed" => ops[r].exit = "HelmError timeout"

\* C28: kubeconfig acquisition fails only after both transports were
\* tried: whenever the HTTP fetch did not return 200, doctl was attempted
\* before the error.
C28_BothTransportsTried ==
    \A r \in Requests :
        (ops[r].pc = "done" /\ ops[r].exit = "HTTPException")
        => ops[r].doctl_tried


\* C25: when a launch ends, the network's status is running only if both
\* the web apply and the ingress apply succeeded; otherwise it is error
\* with an error message, the ingress apply was not attempted after a web
\* failure, nothing applied before was taken back, and the network is
\* still registered.
C25_LaunchOutcome ==
    [][\A id \in DOMAIN _networks :
         (_networks[id].pc # "done" /\ _networks'[id].pc = "done")
         => LET n == _networks'[id]
            IN  /\ n.status \in {"running", "error"}
                /\ n.status = "running" <=> (n.web = "ok" /\ n.ingress = "ok")
                /\ n.status = "error" => n.error # Null
                /\ n.web # "ok" => n.ingress = "none"
                /\ applied \subseteq applied'
                /\ id \in DOMAIN _networks']_vars

\* A launch whose web apply succeeded and whose ingress apply failed ended:
\* status error, and the web manifest is still applied.
C25_Witness ==
    \E id \in DOMAIN _networks :
        /\ _networks[id].pc = "done"
        /\ _networks[id].web = "ok"
        /\ _networks[id].ingress = "failed"
        /\ _networks[id].status = "error"
        /\ <<_networks[id].name, "web">> \in applied

\* C26: no two registered networks have the same slug.
C26_SlugUnique ==
    \A i, j \in DOMAIN _networks :
        i # j => _networks[i].name # _networks[j].name

C27_StopOnlyBetweenRuns ==
    [][\A w \in Workers :
          (wpc[w] # "cancelled" /\ wpc'[w] = "cancelled")
             => /\ wpc[w] \notin InSection
                /\ lock' # lock => lock = w]_vars

\* C30: every usage POST, of the periodic sync and of the on-demand sync of
\* one project, is for a project whose subscription is on the payg tier with
\* a Commerce subscription id and a Commerce customer id.
C30_OnlyPaygReported ==
    \A i \in 1..Len(posts) :
       /\ subs[posts[i].project].exists
       /\ subs[posts[i].project].tier = PAY_AS_YOU_GO
       /\ subs[posts[i].project].hanzo_subscription_id # Null
       /\ subs[posts[i].project].hanzo_customer_id # Null

(***************************************************************************)
(* Rolling restart: what it returns                                        *)
(***************************************************************************)
\* C39: the list rolling_restart builds and returns holds exactly the pods
\* whose kubectl delete succeeded; a pod whose delete failed is not in it.
C39_RestartedWereDeleted ==
    \A r \in RestartIds :
       \A i \in 1..Len(restart[r].restarted) : restart[r].deleted[i]

\* The pods in flight: deleted by a restart that is still waiting for the
\* replacement, which is not ready, before its 60th poll.
InFlight ==
    {n \in PodNames :
        \E r \in RestartIds :
           /\ restart[r].pc = "poll"
           /\ Head(restart[r].todo) = n
           /\ restart[r].deleted[Len(restart[r].deleted)]
           /\ restart[r].polls < MaxPolls
           /\ ~replaced_ready(kpods, n)}

\* C31: at most one pod of the fleet is in flight at any time, also when
\* several restart requests for the same cluster and network have been
\* accepted and run concurrently.
C31_OnePodInFlight == Cardinality(InFlight) <= 1

(***************************************************************************)
(* Usage tracker: records leaving the buffer                               *)
(***************************************************************************)
\* C36: the records a flush removes from cu:buffer:{project} have been
\* inserted into api_usage; when the insert fails they are still in the
\* buffer for a later flush.  In numbers of records: no step lowers the
\* sum of the buffered and the inserted records of a project.
C36_FlushedAreStored ==
    [][\A p \in Projects :
          buffer'[p] + dsRows'[p] >= buffer[p] + dsRows[p]]_vars

(***************************************************************************)
(* Fleet registry: concurrent and failed creates                           *)
(***************************************************************************)
\* C37: two create-fleet requests with the same fleet_id that are served
\* at the same time are never both inside _manager.create (Helm install):
\* one of them has been answered 409 at the registry check.
C37_OneInstallPerFleetId ==
    \A r1, r2 \in Requests :
        (/\ r1 # r2
         /\ requests[r1].op = "create" /\ requests[r2].op = "create"
         /\ requests[r1].pc = "helm" /\ requests[r2].pc = "helm")
        => _fleet_id(requests[r1].name, requests[r1].network)
              # _fleet_id(requests[r2].name, requests[r2].network)

\* C38: a create whose Helm install failed (the response has status error)
\* leaves the registry as it was, so that the same create can be retried
\* without a 409.
C38_FailedInstallNotRegistered ==
    [][\A r \in Requests :
          (/\ requests[r].op = "create"
           /\ requests[r].pc = "helm"
           /\ requests'[r].pc = "done"
           /\ requests'[r].status = "error")
          => _fleets' = _fleets]_vars

(***************************************************************************)
(* Network launcher: scale                                                 *)
(***************************************************************************)
\* C40: scale_network changes the registry's web_replicas only when kubectl
\* scale succeeded: whenever a scale request ends with another web_replicas
\* in the registry than before, that is the replica count of the web
\* deployment in the cluster.
C40_ScaleRecordedWhenApplied ==
    [][\A id \in DOMAIN _networks :
          (/\ _networks[id].scaling # 0
           /\ _networks'[id].scaling = 0
           /\ _networks'[id].web_replicas # _networks[id].web_replicas)
          => web_scale'[_networks[id].name] = _networks'[id].web_replicas]_vars

(***************************************************************************)
(* Usage sync: who deletes the lock, who posts                             *)
(***************************************************************************)
\* C32: a worker that ends its run deletes billing:sync:lock only when the
\* key holds the value its own SET NX wrote; after the TTL ran out under it
\* and another worker acquired the lock, it leaves that lock alone.
C32_ReleaseOwnLockOnly ==
    [][\A w \in Workers :
          (wpc[w] = "release" /\ wpc'[w] = "done" /\ lock # Null)
             => (lock' = Null => lock = w)]_vars

\* C34: while no lock has expired under its holder, a caller that is about
\* to send a usage POST, the on-demand sync_project included, holds
\* billing:sync:lock.
C34_PostUnderLock ==
    ~lockExpired => \A w \in Workers : wpc[w] = "post" => lock = w

(***************************************************************************)
(* Usage sync while usage accrues                                          *)
(***************************************************************************)
\* C33: every compute unit a successful sync has taken off a project's
\* unsync counter has been counted by Commerce, also when the project is
\* synced twice within one UTC hour with fresh usage in between: while
\* Commerce has accepted every POST and no lock has expired under its
\* holder, what has left the counter is at most what Commerce has counted
\* for the project.
C33_RemovedIsCounted ==
    (~lockExpired /\ EveryPostAccepted)
       => \A p \in Projects : accrued[p] - unsync[p] <= commerceCharged[p]

\* C35: the clamp of _mark_synced writes 0 only over a counter that holds
\* no usage added after the worker's DECRBY: no increment falls between
\* the decrement and the SET.
C35_ClampKeepsIncrements ==
    [][\A w \in Workers :
          (wpc[w] = "clamp_write" /\ wpc'[w] # "clamp_write")
             => accrued[Head(wtodo[w])] = wacc[w]]_vars

=============================================================================
